---- MODULE Spec2Model ----
(***************************************************************************)
(* Model of the broker / kv-store cluster of Distributed-Key-Value-Storage *)
(* (package broker, package kvstore, kvstoremain).                        *)
(*                                                                         *)
(* The broker keeps stores, loads and the circular doubly linked peer      *)
(* list; every kv-store node is a process with an in-memory map, a peer    *)
(* address and snapshot files in the shared working directory.             *)
(***************************************************************************)
EXTENDS Integers, Sequences, FiniteSets, TLC

\* ------------------------------------------------------------------------
\* Universe of the model
\* ------------------------------------------------------------------------

\* The store names used by the runs, and the address each node process
\* listens on: NewKVStore sets IPAddress to "localhost:<port>".
Names == {"A", "B", "C"}

Addr(n) == CASE n = "A" -> "localhost:8081"
             [] n = "B" -> "localhost:8082"
             [] n = "C" -> "localhost:8083"

Addrs == {Addr(n) : n \in Names}

NodeAt(a) == CHOOSE n \in Names : Addr(n) = a

\* Keys in the order json.Encoder writes them (sorted), and the values.
KeySeq == <<"k1", "k2">>

Keys == {KeySeq[i] : i \in 1..Len(KeySeq)}

Vals == {"v1", "v2"}

\* A nil *StoreNode (ll.Head == nil).
Nil == 0

\* int(^uint(0) >> 1), the start value of minLoad: the largest int, here
\* the largest integer of the model checker.
MaxInt == 2147483647

\* A map[string]string with no entry.
EmptyMap == << >>

\* The snapshot files of the working directory all node processes share:
\* <Name>.snapshot.json and peerof<Name>.snapshot.json.
SnapName(n) == <<"", n>>

PeerName(n) == <<"peerof", n>>

FileNames == {SnapName(n) : n \in Names} \cup {PeerName(n) : n \in Names}

NoFile == [exists |-> FALSE, content |-> << >>]

NoTakeover == [valid |-> FALSE]

\* No caller holds a map it got from GetAllData.
NoCopy == [held |-> FALSE]

\* Total number of StoreNode cells the runs allocate (registrations).
MaxCells == 3

\* Largest value a load counter reaches in the runs.
MaxLoad == 1

\* Largest value a load counter reaches in the runs of the load balancing.
MaxBalancedLoad == 2

\* Number of node processes that stop in a run.
MaxCrashes == 1

\* Number of periodic snapshot ticks in a run.
MaxTicks == 1

\* Number of periodic snapshot ticks in a run of the snapshot tasks.
MaxSnapshotTicks == 2

\* Number of broker requests that run at the same time.
MaxGoroutines == 2

\* Number of broker requests a run interleaves step by step.
MaxRequests == 3

Goroutines == 1..MaxGoroutines

Idle == [pc |-> "idle"]

\* ------------------------------------------------------------------------
\* State
\* ------------------------------------------------------------------------

VARIABLES
    stores,     \* Broker.stores: store name -> IPAddress of its descriptor
    loads,      \* Broker.loads: store name -> number of operations handled
    peerlist,   \* Broker.peerlist: [Head, nodes]; nodes is the heap of StoreNode cells
    proc,       \* state of each node process: "off", "registered" (not yet listening), "serving"
    data,       \* KVStore.data of each node process
    PeerIP,     \* KVStore.PeerIP of each node process
    ticking,    \* whether the node's periodic snapshot goroutine runs
    disk,       \* the files of the shared working directory
    backupOf,   \* history: the node whose data each peerof<Name> file was pulled from
    takeover,   \* history: the last takeover, while only gets followed it
    calls,      \* the broker requests in flight: position and locals of each goroutine
    dataCopy,   \* the map a caller of KVStore.GetAllData holds
    accepted,   \* history: the <<key, value>> pairs the nodes accepted in a /set
                \* request the broker forwarded
    budget,     \* history: crashes, ticks, concurrent requests begun and concurrent
                \* sets that returned success so far (bounds the runs)
    last        \* history: outcome of the operation that completed last

vars == <<stores, loads, peerlist, proc, data, PeerIP, ticking, disk,
          backupOf, takeover, calls, dataCopy, accepted, budget, last>>

brokerVars == <<stores, loads, peerlist>>

nodeVars == <<proc, data, PeerIP, ticking, disk, backupOf>>

\* ------------------------------------------------------------------------
\* LinkedList (the peer ring)
\* ------------------------------------------------------------------------

EmptyList == [Head |-> Nil, nodes |-> <<>>]

\* Mutant of AddNode: the head's Prev pointer is not redirected to the new tail.
AddNodeNoHeadPrev(ll, name, ipAddress) ==
    LET id == Len(ll.nodes) + 1 IN
    IF ll.Head = Nil
    THEN [Head  |-> id,
          nodes |-> Append(ll.nodes, [Name |-> name, IpAddress |-> ipAddress,
                                      Next |-> id, Prev |-> id])]
    ELSE LET tail == ll.nodes[ll.Head].Prev
             n1   == [ll.nodes EXCEPT ![tail].Next = id]
         IN [Head  |-> ll.Head,
             nodes |-> Append(n1, [Name |-> name, IpAddress |-> ipAddress,
                                   Next |-> ll.Head, Prev |-> tail])]

\* LinkedList.AddNode: append a new cell at the tail of the circular list.
AddNode(ll, name, ipAddress) ==
    LET id == Len(ll.nodes) + 1 IN
    IF ll.Head = Nil
    THEN [Head  |-> id,
          nodes |-> Append(ll.nodes, [Name |-> name, IpAddress |-> ipAddress,
                                      Next |-> id, Prev |-> id])]
    ELSE LET tail == ll.nodes[ll.Head].Prev
             n1   == [ll.nodes EXCEPT ![tail].Next = id]
             n2   == Append(n1, [Name |-> name, IpAddress |-> ipAddress,
                                 Next |-> ll.Head, Prev |-> tail])
             n3   == [n2 EXCEPT ![ll.Head].Prev = id]
         IN [Head |-> ll.Head, nodes |-> n3]

\* The loop shared by RemoveNode and GetStorePeerIP: walk Next from cur until
\* a cell named name is found (its id) or Head is seen again (Nil).  fuel
\* bounds the walk of a list whose Next pointers do not lead back to Head.
RECURSIVE FindFrom(_, _, _, _)
FindFrom(ll, cur, name, fuel) ==
    IF ll.nodes[cur].Name = name THEN cur
    ELSE IF ll.nodes[cur].Next = ll.Head \/ fuel = 0 THEN Nil
    ELSE FindFrom(ll, ll.nodes[cur].Next, name, fuel - 1)

FindNode(ll, name) ==
    IF ll.Head = Nil THEN Nil ELSE FindFrom(ll, ll.Head, name, Len(ll.nodes))

\* The pointer surgery of RemoveNode on the cell current.
Unlink(ll, current) ==
    IF ll.nodes[current].Next = current
    THEN [Head |-> Nil, nodes |-> ll.nodes]
    ELSE LET n1 == [ll.nodes EXCEPT ![ll.nodes[current].Prev].Next = ll.nodes[current].Next]
             n2 == [n1 EXCEPT ![n1[current].Next].Prev = n1[current].Prev]
         IN [Head  |-> IF current = ll.Head THEN n2[current].Next ELSE ll.Head,
             nodes |-> n2]

\* RemoveNode that leaves Head where it was.
RemoveNodeKeepHead(ll, name) ==
    LET current == FindNode(ll, name) IN
    IF current = Nil THEN [list |-> ll, err |-> TRUE]
    ELSE [list |-> [Head |-> IF ll.nodes[current].Next = current THEN Nil ELSE ll.Head,
                    nodes |-> Unlink(ll, current).nodes],
          err |-> FALSE]

\* LinkedList.RemoveNode: unlink the first cell named name; err when the
\* list is empty or holds no such cell.
RemoveNode(ll, name) ==
    LET current == FindNode(ll, name) IN
    IF current = Nil THEN [list |-> ll, err |-> TRUE]
    ELSE [list |-> Unlink(ll, current), err |-> FALSE]

\* The cells met walking Next from Head until Head is seen again, as
\* NotifyPeersOfEachOther and DisplayForward collect them.
RECURSIVE WalkFrom(_, _, _)
WalkFrom(ll, cur, fuel) ==
    IF ll.nodes[cur].Next = ll.Head \/ fuel = 0 THEN <<cur>>
    ELSE <<cur>> \o WalkFrom(ll, ll.nodes[cur].Next, fuel - 1)

Traverse(ll) ==
    IF ll.Head = Nil THEN <<>> ELSE WalkFrom(ll, ll.Head, Len(ll.nodes))

SeqRange(s) == {s[i] : i \in 1..Len(s)}

RingIds(ll) == SeqRange(Traverse(ll))

RingNames(ll) == {ll.nodes[i].Name : i \in RingIds(ll)}

\* ------------------------------------------------------------------------
\* KVStore (package kvstore) and its HTTP handlers (kvstoremain)
\* ------------------------------------------------------------------------

Put(m, k, v) == [x \in DOMAIN m \cup {k} |-> IF x = k THEN v ELSE m[x]]

Remove(m, k) == [x \in DOMAIN m \ {k} |-> m[x]]

\* A merge in which the values of a stay on collision.
MergeKeep(a, b) == [x \in DOMAIN a \cup DOMAIN b |-> IF x \in DOMAIN a THEN a[x] ELSE b[x]]

\* Values of b overwrite those of a: the loop of LoadAndMergeFromDisk.
Merge(a, b) == [x \in DOMAIN a \cup DOMAIN b |-> IF x \in DOMAIN b THEN b[x] ELSE a[x]]

\* json.Encoder on a map[string]string: the members in sorted key order.
RECURSIVE EncodeFrom(_, _)
EncodeFrom(m, i) ==
    IF i > Len(KeySeq) THEN << >>
    ELSE IF KeySeq[i] \in DOMAIN m
         THEN << <<KeySeq[i], m[KeySeq[i]]>> >> \o EncodeFrom(m, i + 1)
         ELSE EncodeFrom(m, i + 1)

EncodeJSON(m) == EncodeFrom(m, 1)

\* json.Decoder into a map: a later member overwrites an earlier one.
RECURSIVE DecodeFrom(_, _)
DecodeFrom(text, i) ==
    IF i = 0 THEN EmptyMap
    ELSE Put(DecodeFrom(text, i - 1), text[i][1], text[i][2])

\* A decoder that takes the name of each member for its value.
DecodeJSONNames(text) ==
    [k \in DOMAIN DecodeFrom(text, Len(text)) |-> k]

DecodeJSON(text) == DecodeFrom(text, Len(text))

ReadFile(dsk, f) == IF f \in DOMAIN dsk THEN dsk[f] ELSE NoFile

WriteFile(dsk, f, text) == [dsk EXCEPT ![f] = [exists |-> TRUE, content |-> text]]

\* Whether a transport-level call to address a is answered: a process
\* listens there.
Reachable(a) == a \in Addrs /\ proc[NodeAt(a)] = "serving"

\* KVStore.LoadAndMergeFromDisk on node n with map d: the new map.
LoadAndMergeFromDisk(n, d, dsk) ==
    LET file == ReadFile(dsk, PeerName(n)) IN
    IF ~file.exists THEN d ELSE Merge(d, DecodeJSON(file.content))

\* KVStore.Get: the value of the key, or the error "key not found".
Get(d, key) ==
    IF key \in DOMAIN d THEN [err |-> FALSE, value |-> d[key]]
    ELSE [err |-> TRUE, value |-> ""]

\* Delete that reports success for any key.
DeleteAny(d, key) == [err |-> FALSE, data |-> Remove(d, key)]

\* KVStore.Delete: the error "key not found" for a key the map does not
\* hold, else the map without the key.
Delete(d, key) ==
    IF key \notin DOMAIN d THEN [err |-> TRUE, data |-> d]
    ELSE [err |-> FALSE, data |-> Remove(d, key)]

\* LoadFromDisk that keeps the keys the file does not hold.
LoadFromDiskMerging(d, filename, dsk) ==
    LET file == ReadFile(dsk, filename) IN
    IF ~file.exists THEN [err |-> FALSE, data |-> d]
    ELSE [err |-> FALSE, data |-> Merge(d, DecodeJSON(file.content))]

\* KVStore.LoadFromDisk on a store with map d: os.Open fails with
\* IsNotExist for a file that is not there and the method returns nil
\* before it touches s.data; else s.data becomes the decoded map.
LoadFromDisk(d, filename, dsk) ==
    LET file == ReadFile(dsk, filename) IN
    IF ~file.exists THEN [err |-> FALSE, data |-> d]
    ELSE [err |-> FALSE, data |-> DecodeJSON(file.content)]

\* GetAllData that hands out s.data itself.
GetAllDataShared(d) == [own |-> FALSE, map |-> d]

\* KVStore.GetAllData: a map of its own (make) with the entries of s.data.
GetAllData(d) == [own |-> TRUE, map |-> [k \in DOMAIN d |-> d[k]]]

\* A request without body (http.Post(url, contentType, nil)) and one with
\* a JSON object as body.
NoBody == ""

JSONBody == "{}"

\* KVStoreHandler.PeerDeadHandler on node n: decodes the body as JSON
\* first (an empty body is a decode error: 400), then merges the backup.
PeerDeadHandler(n, body, d, dsk) ==
    IF body = NoBody THEN [status |-> 400, data |-> d]
    ELSE [status |-> 200, data |-> LoadAndMergeFromDisk(n, d, dsk)]

\* ------------------------------------------------------------------------
\* Broker (package broker)
\* ------------------------------------------------------------------------

\* The state one broker request reads and writes while it runs: the broker's
\* maps and list, the maps and peer address of the nodes it calls, and the
\* log of the calls it made, in order.
World == [stores |-> stores, loads |-> loads, peerlist |-> peerlist,
          PeerIP |-> PeerIP, data |-> data, log |-> << >>]

Event(ev, to, arg, ok) == [ev |-> ev, to |-> to, arg |-> arg, ok |-> ok]

\* All orders in which range may visit the keys of a map.
Perms(S) == {s \in [1..Cardinality(S) -> S] : SeqRange(s) = S}

\* The second loop of NotifyPeersOfEachOther over the collected peers: POST
\* /notify {peer_ip: Next.IpAddress} to every peer whose address differs
\* from its successor's; PeerNotificationHandler calls SetPeerIP.
RECURSIVE NotifyFrom(_, _, _)
NotifyFrom(w, peers, i) ==
    IF i > Len(peers) THEN w
    ELSE LET peer       == w.peerlist.nodes[peers[i]]
             ipAddr     == peer.IpAddress
             nextPeerIP == w.peerlist.nodes[peer.Next].IpAddress
         IN IF ipAddr = "" \/ nextPeerIP = "" \/ ipAddr = nextPeerIP
            THEN NotifyFrom(w, peers, i + 1)
            ELSE IF Reachable(ipAddr)
            THEN NotifyFrom([w EXCEPT !.PeerIP[NodeAt(ipAddr)] = nextPeerIP,
                                      !.log = Append(@, Event("notify", ipAddr, nextPeerIP, TRUE))],
                            peers, i + 1)
            ELSE NotifyFrom([w EXCEPT !.log = Append(@, Event("notify", ipAddr, nextPeerIP, FALSE))],
                            peers, i + 1)

\* The second loop with peer.Prev in the place of peer.Next.
RECURSIVE NotifyPrevFrom(_, _, _)
NotifyPrevFrom(w, peers, i) ==
    IF i > Len(peers) THEN w
    ELSE LET peer       == w.peerlist.nodes[peers[i]]
             ipAddr     == peer.IpAddress
             nextPeerIP == w.peerlist.nodes[peer.Prev].IpAddress
         IN IF ipAddr = "" \/ nextPeerIP = "" \/ ipAddr = nextPeerIP
            THEN NotifyPrevFrom(w, peers, i + 1)
            ELSE IF Reachable(ipAddr)
            THEN NotifyPrevFrom([w EXCEPT !.PeerIP[NodeAt(ipAddr)] = nextPeerIP,
                                          !.log = Append(@, Event("notify", ipAddr, nextPeerIP, TRUE))],
                                peers, i + 1)
            ELSE NotifyPrevFrom([w EXCEPT !.log = Append(@, Event("notify", ipAddr, nextPeerIP, FALSE))],
                                peers, i + 1)

\* NotifyPeersOfEachOther that tells every peer its predecessor.
NotifyPeersOfPrev(w) == NotifyPrevFrom(w, Traverse(w.peerlist), 1)

\* NotifyPeersOfEachOther (Broker.StartPeering).
NotifyPeersOfEachOther(w) == NotifyFrom(w, Traverse(w.peerlist), 1)

\* Mutant of GetStorePeerIP: returns the successor instead of the predecessor.
GetStorePeerIPNext(w, storeName) ==
    LET current == FindNode(w.peerlist, storeName) IN
    IF storeName \notin DOMAIN w.stores \/ current = Nil
    THEN [ip |-> "", name |-> "", err |-> TRUE]
    ELSE LET nxt == w.peerlist.nodes[w.peerlist.nodes[current].Next]
         IN [ip |-> nxt.IpAddress, name |-> nxt.Name, err |-> FALSE]

\* Broker.GetStorePeerIP: address and name of the ring predecessor.
GetStorePeerIP(w, storeName) ==
    LET current == FindNode(w.peerlist, storeName) IN
    IF storeName \notin DOMAIN w.stores \/ current = Nil
    THEN [ip |-> "", name |-> "", err |-> TRUE]
    ELSE LET prev == w.peerlist.nodes[w.peerlist.nodes[current].Prev]
         IN [ip |-> prev.IpAddress, name |-> prev.Name, err |-> FALSE]

\* CreateStore without its two refusals.
CreateStoreAlways(w, name, ip_address) ==
    [w |-> NotifyPeersOfEachOther(
             [w EXCEPT !.stores   = Put(@, name, ip_address),
                       !.loads    = Put(@, name, 0),
                       !.peerlist = AddNode(@, name, ip_address)]),
     err |-> FALSE]

\* Broker.CreateStore: refuses a known name and an empty address; otherwise
\* adds the store to stores, loads and the peer list and notifies the peers.
CreateStore(w, name, ip_address) ==
    IF name \in DOMAIN w.stores \/ ip_address = ""
    THEN [w |-> w, err |-> TRUE]
    ELSE [w |-> NotifyPeersOfEachOther(
                  [w EXCEPT !.stores   = Put(@, name, ip_address),
                            !.loads    = Put(@, name, 0),
                            !.peerlist = AddNode(@, name, ip_address)]),
          err |-> FALSE]

\* BrokerHandler.RegisterHandler: CreateStore, then a second round of
\* notifications.
RegisterHandler(w, name, ip_address) ==
    LET r == CreateStore(w, name, ip_address) IN
    IF r.err THEN r ELSE [w |-> NotifyPeersOfEachOther(r.w), err |-> FALSE]

\* The eviction of store name inside GetKey after a failed transport call:
\* peer-dead (without body) to the predecessor, delete from stores and
\* loads, RemoveNode, StartPeering.
Takeover(w, name) ==
    LET peer  == GetStorePeerIP(w, name)
        reply == IF Reachable(peer.ip)
                 THEN PeerDeadHandler(NodeAt(peer.ip), NoBody,
                                      w.data[NodeAt(peer.ip)], disk)
                 ELSE [status |-> 0, data |-> EmptyMap]
        w1 == IF Reachable(peer.ip)
              THEN [w EXCEPT !.data[NodeAt(peer.ip)] = reply.data,
                             !.log = Append(@, Event("peer-dead", peer.ip, reply.status, TRUE))]
              ELSE [w EXCEPT !.log = Append(@, Event("peer-dead", peer.ip, 0, FALSE))]
        w2 == [w1 EXCEPT !.stores   = Remove(@, name),
                         !.loads    = Remove(@, name),
                         !.peerlist = RemoveNode(@, name).list,
                         !.log      = Append(@, Event("evict", name, "", TRUE))]
    IN NotifyPeersOfEachOther(w2)

\* The loop of Broker.GetKey over the stores in the order range yields
\* them; a store deleted by the loop is the one being visited.
RECURSIVE GetLoop(_, _, _, _)
GetLoop(w, key, order, i) ==
    IF i > Len(order) THEN [w |-> w, found |-> FALSE, value |-> "", from |-> ""]
    ELSE LET name == order[i]
             ip   == w.stores[name]
         IN IF ~Reachable(ip)
            THEN GetLoop(Takeover(w, name), key, order, i + 1)
            ELSE IF key # "" /\ key \in DOMAIN w.data[NodeAt(ip)]
            THEN [w |-> w, found |-> TRUE, value |-> w.data[NodeAt(ip)][key], from |-> name]
            ELSE GetLoop(w, key, order, i + 1)

\* GetKey that takes the first store it visits for dead.
GetKeyEvicting(w, key, order) ==
    IF order = << >> THEN GetLoop(w, key, order, 1)
    ELSE GetLoop(Takeover(w, order[1]), key, order, 2)

\* Broker.GetKey.
GetKey(w, key, order) == GetLoop(w, key, order, 1)

\* The loop of Broker.GetLeastLoadedStore: the first store visited whose
\* load is below every load seen before it ("" when there is no store).
RECURSIVE LeastFrom(_, _, _, _, _)
LeastFrom(w, order, i, minLoad, best) ==
    IF i > Len(order) THEN best
    ELSE IF w.loads[order[i]] < minLoad
         THEN LeastFrom(w, order, i + 1, w.loads[order[i]], order[i])
         ELSE LeastFrom(w, order, i + 1, minLoad, best)

\* Mutant of GetLeastLoadedStore: the first store range yields.
GetFirstStore(w, order) == IF order = << >> THEN "" ELSE order[1]

GetLeastLoadedStore(w, order) == LeastFrom(w, order, 1, MaxInt, "")

\* Mutant of IncrementLoad: the counter is left as it is.
IncrementLoadNever(lds, storeName) == lds

\* IncrementLoad without the test for the counter: loads[storeName]++.
IncrementLoadCreating(lds, storeName) ==
    Put(lds, storeName, IF storeName \in DOMAIN lds THEN lds[storeName] + 1 ELSE 1)

\* Broker.IncrementLoad.
IncrementLoad(lds, storeName) ==
    IF storeName \in DOMAIN lds THEN [lds EXCEPT ![storeName] = @ + 1] ELSE lds

\* Broker.ResetLoad.
ResetLoad(lds, storeName) ==
    IF storeName \in DOMAIN lds THEN [lds EXCEPT ![storeName] = 0] ELSE lds

\* SetHandler on top of a Set that keeps the value of a key it holds.
SetHandlerKeepOld(d, key, value) ==
    IF key = "" THEN [status |-> 500, data |-> d]
    ELSE [status |-> 200, data |-> IF key \in DOMAIN d THEN d ELSE Put(d, key, value)]

\* SetHandler on top of a Set that stores any key.
SetHandlerAnyKey(d, key, value) == [status |-> 200, data |-> Put(d, key, value)]

\* KVStore.Set behind KVStoreHandler.SetHandler: status and new map.
SetHandler(d, key, value) ==
    IF key = "" THEN [status |-> 500, data |-> d]
    ELSE [status |-> 200, data |-> Put(d, key, value)]

\* Broker.SetKey: forward to the least loaded store, count the operation
\* when the node answered 200.
SetKey(w, key, value, order) ==
    LET store == GetLeastLoadedStore(w, order) IN
    IF store = ""
    THEN [w |-> w, ok |-> FALSE, store |-> "", sent |-> FALSE]
    ELSE IF ~Reachable(w.stores[store])
    THEN [w |-> w, ok |-> FALSE, store |-> store, sent |-> FALSE]
    ELSE LET node  == NodeAt(w.stores[store])
             reply == SetHandler(w.data[node], key, value)
         IN IF reply.status # 200
            THEN [w |-> w, ok |-> FALSE, store |-> store, sent |-> TRUE]
            ELSE [w |-> [w EXCEPT !.data[node] = reply.data,
                                  !.loads = IncrementLoad(@, store)],
                  ok |-> TRUE, store |-> store, sent |-> TRUE]

\* ------------------------------------------------------------------------
\* Operations of the cluster, one request at a time
\* ------------------------------------------------------------------------

\* The goroutines inside Broker.GetKey: they hold b.mu.RLock, which keeps
\* out the holders of b.mu.Lock (CreateStore, IncrementLoad).
Readers == {g \in Goroutines : calls[g].pc \notin {"idle", "forward", "increment"}}

Init ==
    /\ stores = EmptyMap
    /\ loads = EmptyMap
    /\ peerlist = EmptyList
    /\ proc = [n \in Names |-> "off"]
    /\ data = [n \in Names |-> EmptyMap]
    /\ PeerIP = [n \in Names |-> ""]
    /\ ticking = [n \in Names |-> FALSE]
    /\ disk = [f \in FileNames |-> NoFile]
    /\ backupOf = [n \in Names |-> ""]
    /\ takeover = NoTakeover
    /\ calls = [g \in Goroutines |-> Idle]
    /\ dataCopy = NoCopy
    /\ accepted = {}
    /\ budget = [crashes |-> 0, ticks |-> 0, requests |-> 0, sets |-> 0]
    /\ last = [op |-> "init"]

\* main of kvstoremain: the process of node n starts with an empty store
\* and registers with the broker before it listens; it exits when the
\* broker refuses the registration.
StartNode(n) ==
    /\ proc[n] = "off"
    /\ Readers = {}
    /\ Len(peerlist.nodes) < MaxCells
    /\ LET r == RegisterHandler(World, n, Addr(n)) IN
       /\ stores' = r.w.stores
       /\ loads' = r.w.loads
       /\ peerlist' = r.w.peerlist
       /\ PeerIP' = r.w.PeerIP
       /\ proc' = [proc EXCEPT ![n] = IF r.err THEN "off" ELSE "registered"]
       /\ last' = [op |-> "register", name |-> n, ip |-> Addr(n), err |-> r.err,
                   log |-> r.w.log, self |-> TRUE]
    /\ UNCHANGED <<dataCopy, accepted>>
    /\ takeover' = NoTakeover
    /\ UNCHANGED <<data, ticking, disk, backupOf, budget, calls>>

\* http.ListenAndServe of node n, after its registration returned.
Listen(n) ==
    /\ proc[n] = "registered"
    /\ proc' = [proc EXCEPT ![n] = "serving"]
    /\ last' = [op |-> "listen", name |-> n]
    /\ UNCHANGED <<dataCopy, accepted>>
    /\ takeover' = NoTakeover
    /\ UNCHANGED <<brokerVars, data, PeerIP, ticking, disk, backupOf, budget, calls>>

\* POST /register by any client, for a name and an address.
Register(name, ip) ==
    /\ Readers = {}
    /\ Len(peerlist.nodes) < MaxCells
    /\ LET r == RegisterHandler(World, name, ip) IN
       /\ stores' = r.w.stores
       /\ loads' = r.w.loads
       /\ peerlist' = r.w.peerlist
       /\ PeerIP' = r.w.PeerIP
       /\ last' = [op |-> "register", name |-> name, ip |-> ip, err |-> r.err,
                   log |-> r.w.log, self |-> FALSE]
    /\ UNCHANGED <<dataCopy, accepted>>
    /\ takeover' = NoTakeover
    /\ UNCHANGED <<proc, data, ticking, disk, backupOf, budget, calls>>

\* The process of node n stops: its memory is lost, its files stay.
Crash(n) ==
    /\ proc[n] # "off"
    /\ budget.crashes < MaxCrashes
    /\ budget' = [budget EXCEPT !.crashes = @ + 1]
    /\ proc' = [proc EXCEPT ![n] = "off"]
    /\ data' = [data EXCEPT ![n] = EmptyMap]
    /\ PeerIP' = [PeerIP EXCEPT ![n] = ""]
    /\ ticking' = [ticking EXCEPT ![n] = FALSE]
    /\ calls' = [g \in Goroutines |->
                    IF calls[g].pc = "increment" /\ calls[g].store.IPAddress = Addr(n)
                    THEN [calls[g] EXCEPT !.disturbed = @ \cup {"stopped"}] ELSE calls[g]]
    /\ last' = [op |-> "crash", name |-> n]
    /\ UNCHANGED <<dataCopy, accepted>>
    /\ takeover' = NoTakeover
    /\ UNCHANGED <<brokerVars, disk, backupOf>>

\* POST /set on the broker, while the counter it increments is below bound.
SetKeyWithin(bound, key, value, order) ==
    LET r == SetKey(World, key, value, order) IN
    /\ r.ok => loads[r.store] < bound
    /\ loads' = r.w.loads
    /\ data' = r.w.data
    /\ last' = [op |-> "set", key |-> key, value |-> value, ok |-> r.ok,
                store |-> r.store, sent |-> r.sent, before |-> loads,
                disturbed |-> {}]
    /\ accepted' = IF r.ok THEN accepted \cup {<<key, value>>} ELSE accepted
    /\ UNCHANGED dataCopy
    /\ takeover' = NoTakeover
    /\ UNCHANGED <<stores, peerlist, proc, PeerIP, ticking, disk, backupOf, budget, calls>>

\* POST /set on the broker.
SetKeyReq(key, value, order) == SetKeyWithin(MaxLoad, key, value, order)

\* The takeover a get leaves for the gets that follow it: the last store it
\* evicted whose predecessor answered the peer-dead call and held a backup
\* pulled from that store.
TakeoverOf(log, ring) ==
    LET hits == {i \in 1..Len(log) :
                    /\ log[i].ev = "peer-dead"
                    /\ log[i].ok
                    /\ backupOf[NodeAt(log[i].to)] = log[i + 1].to
                    /\ NodeAt(log[i].to) # log[i + 1].to}
    IN IF hits = {} THEN NoTakeover
       ELSE LET i == CHOOSE j \in hits : \A h \in hits : h <= j
            IN [valid  |-> TRUE,
                T      |-> log[i + 1].to,
                P      |-> NodeAt(log[i].to),
                ring   |-> ring,
                sole   |-> Cardinality({j \in 1..Len(log) : log[j].ev = "evict"}) = 1,
                backup |-> DecodeJSON(disk[PeerName(NodeAt(log[i].to))].content)]

\* GET /get on the broker.
GetKeyReq(key, order) ==
    LET r == GetKey(World, key, order) IN
    /\ stores' = r.w.stores
    /\ loads' = r.w.loads
    /\ peerlist' = r.w.peerlist
    /\ PeerIP' = r.w.PeerIP
    /\ data' = r.w.data
    /\ last' = [op |-> "get", key |-> key, found |-> r.found, value |-> r.value,
                from |-> r.from, log |-> r.w.log,
                ring |-> peerlist,
                allReachable |-> \A n \in DOMAIN stores : Reachable(stores[n]),
                prevSet |-> IF last.op = "set" /\ last.ok
                            THEN <<last.key, last.value>> ELSE << >>,
                prevDelete |-> IF last.op = "delete" /\ last.storeIP # ""
                               THEN <<last.key>> ELSE << >>,
                prior |-> takeover]
    /\ UNCHANGED <<dataCopy, accepted>>
    /\ takeover' = IF \E i \in 1..Len(r.w.log) : r.w.log[i].ev = "evict"
                   THEN TakeoverOf(r.w.log, [i \in 1..Len(Traverse(peerlist)) |->
                                               peerlist.nodes[Traverse(peerlist)[i]].Name])
                   ELSE takeover
    /\ UNCHANGED <<proc, ticking, disk, backupOf, budget, calls>>

\* Broker.EnablePeriodicSnapshots behind POST /kvstore/snapshot/periodic:
\* StartPeriodicSnapshotsHandler of the node refuses an interval <= 0.
EnablePeriodicSnapshots(storename, interval) ==
    LET ok == /\ storename \in DOMAIN stores
              /\ Reachable(stores[storename])
              /\ interval > 0
    IN /\ ticking' = IF ok THEN [ticking EXCEPT ![NodeAt(stores[storename])] = TRUE]
                     ELSE ticking
       /\ last' = [op |-> "enable", name |-> storename, ok |-> ok]
       /\ UNCHANGED <<dataCopy, accepted>>
       /\ takeover' = NoTakeover
       /\ UNCHANGED <<brokerVars, proc, data, PeerIP, disk, backupOf, budget, calls>>

\* RequestPeerBackup of node n from the 200 answer on: decode the body,
\* encode the decoded object into peerof<n>.
StorePeerBackup(n, body, dsk) ==
    WriteFile(dsk, PeerName(n), EncodeJSON(DecodeJSON(body)))

\* A pull that empties peerof<n> when the peer does not answer.
RequestPeerBackupTruncating(n, peer_ip, dsk) ==
    IF ~Reachable(peer_ip) THEN WriteFile(dsk, PeerName(n), << >>)
    ELSE StorePeerBackup(n, EncodeJSON(data[NodeAt(peer_ip)]), dsk)

\* KVStore.RequestPeerBackup of node n: GET /peer-backup on the peer
\* (PeerBackupHandler answers GetAllData), decode, write peerof<n>.
RequestPeerBackup(n, peer_ip, dsk) ==
    IF ~Reachable(peer_ip) THEN dsk
    ELSE StorePeerBackup(n, EncodeJSON(data[NodeAt(peer_ip)]), dsk)

\* KVStore.SaveToDisk of node n.
SaveToDisk(n, dsk) == WriteFile(dsk, SnapName(n), EncodeJSON(data[n]))

\* An iteration that pulls whether or not the store has a peer address.
SnapshotIterationAlwaysPull(n, dsk, createFails) ==
    LET peer_ip == PeerIP[n]
        d1      == RequestPeerBackup(n, peer_ip, dsk)
    IN [disk   |-> IF createFails THEN d1 ELSE SaveToDisk(n, d1),
        log    |-> <<"pull", "save">>,
        pulled |-> Reachable(peer_ip),
        saved  |-> ~createFails]

\* One iteration of the loop of KVStore.StartPeriodicSnapshots on node n:
\* RequestPeerBackup when PeerIP is set, then SaveToDisk, whose os.Create
\* fails or not; the loop has no exit.
SnapshotIteration(n, dsk, createFails) ==
    LET peer_ip == PeerIP[n]
        d1      == IF peer_ip # "" THEN RequestPeerBackup(n, peer_ip, dsk) ELSE dsk
    IN [disk   |-> IF createFails THEN d1 ELSE SaveToDisk(n, d1),
        log    |-> (IF peer_ip # "" THEN <<"pull">> ELSE << >>) \o <<"save">>,
        pulled |-> peer_ip # "" /\ Reachable(peer_ip),
        saved  |-> ~createFails]

\* One tick of the goroutine of KVStore.StartPeriodicSnapshots on node n.
Tick(n) ==
    /\ proc[n] = "serving"
    /\ ticking[n]
    /\ budget.ticks < MaxTicks
    /\ budget' = [budget EXCEPT !.ticks = @ + 1]
    /\ LET it == SnapshotIteration(n, disk, FALSE)
       IN /\ disk' = it.disk
          /\ backupOf' = IF it.pulled THEN [backupOf EXCEPT ![n] = NodeAt(PeerIP[n])]
                         ELSE backupOf
          /\ last' = [op |-> "tick", name |-> n, pulled |-> it.pulled]
    /\ UNCHANGED <<dataCopy, accepted>>
    /\ takeover' = NoTakeover
    /\ UNCHANGED <<brokerVars, proc, data, PeerIP, ticking, calls>>

\* One tick on node n, with a SaveToDisk that fails or not; earlier is the
\* outcome of the tick of the same node right before this one.
SnapshotTick(n, createFails) ==
    /\ proc[n] = "serving"
    /\ ticking[n]
    /\ budget.ticks < MaxSnapshotTicks
    /\ budget' = [budget EXCEPT !.ticks = @ + 1]
    /\ LET it == SnapshotIteration(n, disk, createFails)
       IN /\ disk' = it.disk
          /\ backupOf' = IF it.pulled THEN [backupOf EXCEPT ![n] = NodeAt(PeerIP[n])]
                         ELSE backupOf
          /\ last' = [op |-> "tick", name |-> n, pulled |-> it.pulled,
                      saved |-> it.saved, log |-> it.log,
                      earlier |-> IF last.op = "tick" /\ last.name = n
                                  THEN <<last.log, last.pulled, last.saved>> ELSE << >>]
    /\ UNCHANGED <<dataCopy, accepted>>
    /\ takeover' = NoTakeover
    /\ UNCHANGED <<brokerVars, proc, data, PeerIP, ticking, calls>>

\* The loop of Broker.ManualSnapshotStore over the stores in the order
\* range yields them: POST /save to each; a transport error (status 0) and
\* a status other than 200 are logged and the loop goes on.  failing are
\* the nodes whose SaveToDisk returns an error.
RECURSIVE ManualSnapshotFrom(_, _, _, _, _)
ManualSnapshotFrom(order, i, dsk, log, failing) ==
    IF i > Len(order) THEN [disk |-> dsk, log |-> log, err |-> FALSE]
    ELSE LET name == order[i]
             ip   == stores[name]
         IN IF ~Reachable(ip)
            THEN ManualSnapshotFrom(order, i + 1, dsk,
                                    Append(log, Event("save", name, 0, FALSE)), failing)
            ELSE IF NodeAt(ip) \in failing
            THEN ManualSnapshotFrom(order, i + 1, dsk,
                                    Append(log, Event("save", name, 500, TRUE)), failing)
            ELSE ManualSnapshotFrom(order, i + 1, SaveToDisk(NodeAt(ip), dsk),
                                    Append(log, Event("save", name, 200, TRUE)), failing)

\* ManualSnapshotStore that returns at the first store that fails.
ManualSnapshotStoreStrict(order, failing) ==
    LET bad == {i \in 1..Len(order) :
                  ~Reachable(stores[order[i]]) \/ NodeAt(stores[order[i]]) \in failing}
        upto == IF bad = {} THEN Len(order)
                ELSE CHOOSE i \in bad : \A j \in bad : i <= j
        r == ManualSnapshotFrom(SubSeq(order, 1, upto), 1, disk, << >>, failing)
    IN [r EXCEPT !.err = bad # {}]

\* Broker.ManualSnapshotStore.
ManualSnapshotStore(order, failing) == ManualSnapshotFrom(order, 1, disk, << >>, failing)

\* POST /kvstore/snapshot/manual on the broker.
ManualSnapshotReq(order, failing) ==
    LET r == ManualSnapshotStore(order, failing) IN
    /\ disk' = r.disk
    /\ last' = [op |-> "manual-snapshot", log |-> r.log, err |-> r.err,
                registered |-> DOMAIN stores]
    /\ UNCHANGED <<dataCopy, accepted>>
    /\ takeover' = NoTakeover
    /\ UNCHANGED <<brokerVars, proc, data, PeerIP, ticking, backupOf, budget, calls>>

\* A peer-dead request after which the node has no peer address.
PeerDeadRequestReassigning(n, body) ==
    /\ proc[n] = "serving"
    /\ LET reply == PeerDeadHandler(n, body, data[n], disk) IN
       /\ data' = [data EXCEPT ![n] = reply.data]
       /\ last' = [op |-> "peer-dead", name |-> n, status |-> reply.status]
    /\ PeerIP' = [PeerIP EXCEPT ![n] = ""]
    /\ UNCHANGED <<dataCopy, accepted>>
    /\ takeover' = NoTakeover
    /\ UNCHANGED <<brokerVars, proc, ticking, disk, backupOf, budget, calls>>

\* POST /peer-dead on node n by any client, with or without a body.
PeerDeadRequest(n, body) ==
    /\ proc[n] = "serving"
    /\ LET reply == PeerDeadHandler(n, body, data[n], disk) IN
       /\ data' = [data EXCEPT ![n] = reply.data]
       /\ last' = [op |-> "peer-dead", name |-> n, status |-> reply.status]
    /\ UNCHANGED <<dataCopy, accepted>>
    /\ takeover' = NoTakeover
    /\ UNCHANGED <<brokerVars, proc, PeerIP, ticking, disk, backupOf, budget, calls>>

\* POST /load {filename} on node n by any client: LoadFromDiskHandler
\* calls LoadFromDisk, which answers 200 also when the file is missing.
LoadFromDiskRequest(n, filename) ==
    /\ proc[n] = "serving"
    /\ data' = [data EXCEPT ![n] = LoadFromDisk(@, filename, disk).data]
    /\ last' = [op |-> "load", name |-> n, filename |-> filename]
    /\ UNCHANGED <<dataCopy, accepted>>
    /\ takeover' = NoTakeover
    /\ UNCHANGED <<brokerVars, proc, PeerIP, ticking, disk, backupOf, budget, calls>>

\* The paths KVStoreHandler.SetupRoutes registers on a node.
Routes == {"/get", "/set", "/name", "/getall", "/notify", "/peer-dead",
           "/peer-backup", "/save", "/load", "/start-snapshots"}

\* The first loop of Broker.DeleteKey: the last store visited that answers
\* the probe with 200 ("" when none does); an unreachable store is skipped.
RECURSIVE LocateFrom(_, _, _, _, _)
LocateFrom(w, key, order, i, storeIP) ==
    IF i > Len(order) THEN storeIP
    ELSE LET ip == w.stores[order[i]] IN
         IF Reachable(ip) /\ key # "" /\ key \in DOMAIN w.data[NodeAt(ip)]
         THEN LocateFrom(w, key, order, i + 1, ip)
         ELSE LocateFrom(w, key, order, i + 1, storeIP)

\* Broker.DeleteKey: POST /delete to the store found; the node's mux
\* answers 404 for a path that has no handler.
DeleteKey(w, key, order) ==
    LET storeIP == LocateFrom(w, key, order, 1, "") IN
    IF storeIP = "" THEN [w |-> w, deleted |-> FALSE, storeIP |-> "", status |-> 0]
    ELSE IF "/delete" \in Routes
    THEN [w |-> [w EXCEPT !.data[NodeAt(storeIP)] = Remove(@, key)],
          deleted |-> TRUE, storeIP |-> storeIP, status |-> 200]
    ELSE [w |-> w, deleted |-> FALSE, storeIP |-> storeIP, status |-> 404]

\* POST /delete on the broker.
DeleteKeyReq(key, order) ==
    LET r == DeleteKey(World, key, order) IN
    /\ data' = r.w.data
    /\ loads' = r.w.loads
    /\ last' = [op |-> "delete", key |-> key, deleted |-> r.deleted,
                storeIP |-> r.storeIP, status |-> r.status, before |-> loads]
    /\ UNCHANGED <<dataCopy, accepted>>
    /\ takeover' = NoTakeover
    /\ UNCHANGED <<stores, peerlist, proc, PeerIP, ticking, disk, backupOf, budget, calls>>

\* Broker.RemoveStore: delete from stores, loads and the list, notify the
\* peers; the /shutdown call that follows reaches no handler.
RemoveStore(w, name) ==
    IF name \notin DOMAIN w.stores THEN [w |-> w, err |-> TRUE]
    ELSE [w |-> NotifyPeersOfEachOther(
                  [w EXCEPT !.stores   = Remove(@, name),
                            !.loads    = Remove(@, name),
                            !.peerlist = RemoveNode(@, name).list]),
          err |-> FALSE]

RemoveStoreReq(name) ==
    LET r == RemoveStore(World, name) IN
    /\ stores' = r.w.stores
    /\ loads' = r.w.loads
    /\ peerlist' = r.w.peerlist
    /\ PeerIP' = r.w.PeerIP
    /\ last' = [op |-> "remove-store", name |-> name, err |-> r.err, log |-> r.w.log]
    /\ UNCHANGED <<dataCopy, accepted>>
    /\ takeover' = NoTakeover
    /\ UNCHANGED <<proc, data, ticking, disk, backupOf, budget, calls>>

\* ------------------------------------------------------------------------
\* Broker requests that run at the same time, one step of a goroutine at a
\* time.  net/http serves every request on a goroutine of its own;
\* BrokerHandler.GetHandler and SetHandler take h.mu.RLock, Broker.GetKey
\* holds b.mu.RLock for its whole loop, so several GetKey run together and
\* their writes to stores, loads and the peer list are not ordered by any
\* lock.
\* ------------------------------------------------------------------------

\* What last holds after a step of a goroutine that is not a return.
Stepped == [op |-> "step"]

\* Whether a walk along Next that starts at Head never sees Head again: the
\* loops of GetStorePeerIP, RemoveNode and NotifyPeersOfEachOther end only
\* when they find their cell or are back at Head.
Loops(ll) ==
    /\ ll.Head # Nil
    /\ \A c \in RingIds(ll) : ll.nodes[c].Next # ll.Head

\* The request of goroutine g returns: from a GetKey or a failed SetKey.
Return(g, result) ==
    /\ calls' = [calls EXCEPT ![g] = Idle]
    /\ last' = result

\* GetKey takes b.mu.RLock and starts to range over b.stores; order is the
\* order in which range yields the stores.
GetKeyBegin(g, key, order) ==
    /\ calls[g] = Idle
    /\ budget.requests < MaxRequests
    /\ budget' = [budget EXCEPT !.requests = @ + 1]
    /\ calls' = [calls EXCEPT ![g] =
                   [pc |-> "probe", key |-> key,
                    todo |-> [i \in 1..Len(order) |->
                                [Name |-> order[i], IPAddress |-> stores[order[i]]]]]]
    /\ UNCHANGED <<brokerVars, nodeVars, takeover, dataCopy, accepted>>
    /\ last' = Stepped

\* One iteration of the loop of GetKey up to the outcome of http.Get.  A
\* store another goroutine deleted since the range began is a racing read
\* of the map: range yields it or not.
GetKeyProbe(g, yield) ==
    LET c == calls[g] IN
    /\ c.pc = "probe"
    /\ IF c.todo = << >>
       THEN /\ Return(g, [op |-> "get", key |-> c.key, found |-> FALSE, value |-> ""])
            /\ UNCHANGED <<brokerVars, nodeVars, takeover, dataCopy, accepted, budget>>
       ELSE LET store == Head(c.todo)
                rest  == Tail(c.todo)
            IN /\ store.Name \in DOMAIN stores => yield
               /\ IF ~yield
                  THEN /\ calls' = [calls EXCEPT ![g].todo = rest]
                       /\ last' = Stepped
                  ELSE IF ~Reachable(store.IPAddress)
                  THEN /\ calls' = [calls EXCEPT ![g] =
                                      [pc |-> "evict", key |-> c.key, todo |-> rest,
                                       store |-> store]]
                       /\ last' = Stepped
                  ELSE IF c.key # "" /\ c.key \in DOMAIN data[NodeAt(store.IPAddress)]
                  THEN Return(g, [op |-> "get", key |-> c.key, found |-> TRUE,
                                  value |-> data[NodeAt(store.IPAddress)][c.key]])
                  ELSE /\ calls' = [calls EXCEPT ![g].todo = rest]
                       /\ last' = Stepped
               /\ UNCHANGED <<brokerVars, nodeVars, takeover, dataCopy, accepted, budget>>

\* The error branch of GetKey up to the two deletes: GetStorePeerIP, the
\* peer-dead call without body, delete from stores and from loads.  A set
\* in flight towards the deleted store is marked.
GetKeyEvict(g) ==
    LET c    == calls[g]
        name == c.store.Name
        peer == GetStorePeerIP(World, name)
    IN /\ c.pc = "evict"
       /\ IF name \in DOMAIN stores /\ FindNode(peerlist, name) = Nil /\ Loops(peerlist)
          THEN /\ calls' = [calls EXCEPT ![g].pc = "hung"]
               /\ UNCHANGED <<stores, loads, data>>
          ELSE /\ data' = IF Reachable(peer.ip)
                          THEN [data EXCEPT ![NodeAt(peer.ip)] =
                                  PeerDeadHandler(NodeAt(peer.ip), NoBody, @, disk).data]
                          ELSE data
               /\ stores' = Remove(stores, name)
               /\ loads' = Remove(loads, name)
               /\ calls' = [h \in Goroutines |->
                              IF h = g THEN [c EXCEPT !.pc = "remove"]
                              ELSE IF /\ calls[h].pc \in {"forward", "increment"}
                                      /\ calls[h].store.Name = name
                                      /\ name \in DOMAIN stores
                              THEN [calls[h] EXCEPT !.disturbed = @ \cup {"evicted"}]
                              ELSE calls[h]]
       /\ UNCHANGED <<peerlist, proc, PeerIP, ticking, disk, backupOf, takeover, dataCopy, accepted, budget>>
       /\ last' = Stepped

\* RemoveNode up to its first write: the search for the cell and the test
\* for a list of one cell.
GetKeyRemoveNode(g) ==
    LET c       == calls[g]
        current == FindNode(peerlist, c.store.Name)
    IN /\ c.pc = "remove"
       /\ IF current = Nil
          THEN /\ calls' = [calls EXCEPT ![g].pc =
                              IF Loops(peerlist) THEN "hung" ELSE "peering"]
               /\ UNCHANGED peerlist
          ELSE IF peerlist.nodes[current].Next = current
          THEN /\ peerlist' = [peerlist EXCEPT !.Head = Nil]
               /\ calls' = [calls EXCEPT ![g].pc = "peering"]
          ELSE /\ calls' = [calls EXCEPT ![g] =
                              [pc |-> "unlinkPrev", key |-> c.key, todo |-> c.todo,
                               store |-> c.store, current |-> current]]
               /\ UNCHANGED peerlist
       /\ UNCHANGED <<stores, loads, nodeVars, takeover, dataCopy, accepted, budget>>
       /\ last' = Stepped

\* RemoveNode: current.Prev.Next = current.Next.
GetKeyUnlinkPrev(g) ==
    LET c == calls[g] IN
    /\ c.pc = "unlinkPrev"
    /\ peerlist' = [peerlist EXCEPT !.nodes[peerlist.nodes[c.current].Prev].Next =
                                       peerlist.nodes[c.current].Next]
    /\ calls' = [calls EXCEPT ![g].pc = "unlinkNext"]
    /\ UNCHANGED <<stores, loads, nodeVars, takeover, dataCopy, accepted, budget>>
    /\ last' = Stepped

\* RemoveNode: current.Next.Prev = current.Prev.
GetKeyUnlinkNext(g) ==
    LET c == calls[g] IN
    /\ c.pc = "unlinkNext"
    /\ peerlist' = [peerlist EXCEPT !.nodes[peerlist.nodes[c.current].Next].Prev =
                                       peerlist.nodes[c.current].Prev]
    /\ calls' = [calls EXCEPT ![g].pc = "unlinkHead"]
    /\ UNCHANGED <<stores, loads, nodeVars, takeover, dataCopy, accepted, budget>>
    /\ last' = Stepped

\* RemoveNode: if current == ll.Head { ll.Head = current.Next }.
GetKeyUnlinkHead(g) ==
    LET c == calls[g] IN
    /\ c.pc = "unlinkHead"
    /\ peerlist' = [peerlist EXCEPT !.Head = IF c.current = peerlist.Head
                                              THEN peerlist.nodes[c.current].Next
                                              ELSE @]
    /\ calls' = [calls EXCEPT ![g] =
                   [pc |-> "peering", key |-> c.key, todo |-> c.todo, store |-> c.store]]
    /\ UNCHANGED <<stores, loads, nodeVars, takeover, dataCopy, accepted, budget>>
    /\ last' = Stepped

\* StartPeering at the end of the error branch, then continue.
GetKeyPeering(g) ==
    LET c == calls[g] IN
    /\ c.pc = "peering"
    /\ IF Loops(peerlist)
       THEN /\ calls' = [calls EXCEPT ![g].pc = "hung"]
            /\ UNCHANGED PeerIP
       ELSE /\ PeerIP' = NotifyPeersOfEachOther(World).PeerIP
            /\ calls' = [calls EXCEPT ![g] =
                           [pc |-> "probe", key |-> c.key, todo |-> c.todo]]
    /\ UNCHANGED <<brokerVars, proc, data, ticking, disk, backupOf, takeover, dataCopy, accepted, budget>>
    /\ last' = Stepped

\* SetKey up to the return of GetLeastLoadedStore.
SetKeySelect(g, key, value, order) ==
    LET name == GetLeastLoadedStore(World, order) IN
    /\ calls[g] = Idle
    /\ budget.requests < MaxRequests
    /\ budget' = [budget EXCEPT !.requests = @ + 1]
    /\ IF name = ""
       THEN Return(g, [op |-> "set", key |-> key, value |-> value, ok |-> FALSE,
                       store |-> "", sent |-> FALSE, before |-> loads,
                       disturbed |-> {}])
       ELSE /\ calls' = [calls EXCEPT ![g] =
                           [pc |-> "forward", key |-> key, value |-> value,
                            store |-> [Name |-> name, IPAddress |-> stores[name]],
                            before |-> loads, disturbed |-> {}]]
            /\ last' = Stepped
    /\ UNCHANGED <<brokerVars, nodeVars, takeover, dataCopy, accepted>>

\* SetKey: the POST /set to the selected store.  A set of the same key that
\* already reached the same node and has not returned yet is marked.
SetKeyForward(g) ==
    LET c     == calls[g]
        node  == NodeAt(c.store.IPAddress)
        reply == SetHandler(data[node], c.key, c.value)
        fail(sent) == [op |-> "set", key |-> c.key, value |-> c.value, ok |-> FALSE,
                       store |-> c.store.Name, sent |-> sent, before |-> c.before,
                       disturbed |-> c.disturbed]
    IN /\ c.pc = "forward"
       /\ IF ~Reachable(c.store.IPAddress)
          THEN Return(g, fail(FALSE)) /\ UNCHANGED <<data, accepted>>
          ELSE IF reply.status # 200
          THEN Return(g, fail(TRUE)) /\ UNCHANGED <<data, accepted>>
          ELSE /\ data' = [data EXCEPT ![node] = reply.data]
               /\ accepted' = accepted \cup {<<c.key, c.value>>}
               /\ calls' = [h \in Goroutines |->
                              IF h = g THEN [c EXCEPT !.pc = "increment"]
                              ELSE IF /\ calls[h].pc = "increment"
                                      /\ calls[h].store.IPAddress = c.store.IPAddress
                                      /\ calls[h].key = c.key
                              THEN [calls[h] EXCEPT !.disturbed = @ \cup {"overwritten"}]
                              ELSE calls[h]]
               /\ last' = Stepped
       /\ UNCHANGED <<brokerVars, proc, PeerIP, ticking, disk, backupOf, takeover, dataCopy, budget>>

\* SetKey: IncrementLoad, which waits for b.mu.Lock, and the return.
SetKeyIncrement(g) ==
    LET c == calls[g] IN
    /\ c.pc = "increment"
    /\ Readers = {}
    /\ loads' = IncrementLoad(loads, c.store.Name)
    /\ Return(g, [op |-> "set", key |-> c.key, value |-> c.value, ok |-> TRUE,
                  store |-> c.store.Name, sent |-> TRUE, before |-> c.before,
                  disturbed |-> c.disturbed])
    /\ budget' = [budget EXCEPT !.sets = @ + 1]
    /\ UNCHANGED <<stores, peerlist, nodeVars, takeover, dataCopy, accepted>>

\* Routing: two node processes, sets, gets and deletes of one key (and of
\* the empty key) with two values.
RouteNames == {"A", "B"}

RouteKeys == {"k1", ""}

Next ==
    \/ \E n \in RouteNames : StartNode(n)
    \/ \E n \in RouteNames : Listen(n)
    \/ \E n \in RouteNames : Crash(n)
    \/ \E k \in RouteKeys, v \in Vals, order \in Perms(DOMAIN stores) : SetKeyReq(k, v, order)
    \/ \E k \in RouteKeys, order \in Perms(DOMAIN stores) : GetKeyReq(k, order)
    \/ \E k \in RouteKeys, order \in Perms(DOMAIN stores) : DeleteKeyReq(k, order)

Spec == Init /\ [][Next]_vars

\* Topology: three node processes, registrations by the nodes and by other
\* clients, failures, gets that evict, removals of stores.
NextTopology ==
    \/ \E n \in Names : StartNode(n)
    \/ \E n \in Names : Listen(n)
    \/ \E n \in Names : \E ip \in {"", Addr(n)} : Register(n, ip)
    \/ \E n \in Names : Crash(n)
    \/ \E order \in Perms(DOMAIN stores) : GetKeyReq("k1", order)
    \/ \E n \in Names : RemoveStoreReq(n)

SpecTopology == Init /\ [][NextTopology]_vars

\* Backup and takeover: the operator starts the three node processes one
\* after the other (a node starts once those before it serve); sets of one
\* key, periodic snapshot ticks, failures, gets that evict, peer-dead calls.
StartOrder == <<"A", "B", "C">>

NextBackup ==
    \/ \E i \in 1..Len(StartOrder) :
          /\ \A j \in 1..(i - 1) : proc[StartOrder[j]] = "serving"
          /\ StartNode(StartOrder[i])
    \/ \E n \in Names : Listen(n)
    \/ \E n \in Names : Crash(n)
    \/ \E v \in Vals, order \in Perms(DOMAIN stores) : SetKeyReq("k1", v, order)
    \/ \E order \in Perms(DOMAIN stores) : GetKeyReq("k1", order)
    \/ \E n \in Names : EnablePeriodicSnapshots(n, 1)
    \/ \E n \in Names : Tick(n)
    \/ \E n \in Names, body \in {NoBody, JSONBody} : PeerDeadRequest(n, body)

SpecBackup == Init /\ [][NextBackup]_vars

\* Load balancing: two node processes that register at any time, sets of
\* two keys one after the other; no get, no delete, no failure, so no store
\* is evicted and no counter is reset.
BalanceKeys == {"k1", "k2"}

NextBalance ==
    \/ \E n \in RouteNames : StartNode(n)
    \/ \E n \in RouteNames : Listen(n)
    \/ \E k \in BalanceKeys, v \in Vals, order \in Perms(DOMAIN stores) :
          SetKeyWithin(MaxBalancedLoad, k, v, order)

SpecBalance == Init /\ [][NextBalance]_vars

\* The store of a node: two node processes, sets of two keys with two
\* values that reach the same node more than once, gets, periodic snapshot
\* ticks and peer-dead calls that merge a backup into the store.
NextStore ==
    \/ \E n \in RouteNames : StartNode(n)
    \/ \E n \in RouteNames : Listen(n)
    \/ \E k \in BalanceKeys, v \in Vals, order \in Perms(DOMAIN stores) :
          SetKeyWithin(MaxBalancedLoad, k, v, order)
    \/ \E k \in BalanceKeys, order \in Perms(DOMAIN stores) : GetKeyReq(k, order)
    \/ \E n \in RouteNames : EnablePeriodicSnapshots(n, 1)
    \/ \E n \in RouteNames : Tick(n)
    \/ \E n \in RouteNames, body \in {NoBody, JSONBody} : PeerDeadRequest(n, body)

SpecStore == Init /\ [][NextStore]_vars

\* Where the data comes from: two node processes, sets of one key with two
\* values, gets, failures, periodic snapshot ticks that pull and save,
\* peer-dead requests that merge a backup, loads of the snapshot files.
NextProvenance ==
    \/ \E n \in RouteNames : StartNode(n)
    \/ \E n \in RouteNames : Listen(n)
    \/ \E n \in RouteNames : Crash(n)
    \/ \E v \in Vals, order \in Perms(DOMAIN stores) : SetKeyReq("k1", v, order)
    \/ \E order \in Perms(DOMAIN stores) : GetKeyReq("k1", order)
    \/ \E n \in RouteNames : EnablePeriodicSnapshots(n, 1)
    \/ \E n \in RouteNames : Tick(n)
    \/ \E n \in RouteNames, body \in {NoBody, JSONBody} : PeerDeadRequest(n, body)
    \/ \E n \in RouteNames, m \in RouteNames :
          \E f \in {SnapName(m), PeerName(m)} : LoadFromDiskRequest(n, f)

SpecProvenance == Init /\ [][NextProvenance]_vars

\* Snapshots: two node processes, sets of one key, failures, periodic
\* snapshot ticks and manual snapshots whose SaveToDisk fails or not.
NextSnapshot ==
    \/ \E n \in RouteNames : StartNode(n)
    \/ \E n \in RouteNames : Listen(n)
    \/ \E n \in RouteNames : Crash(n)
    \/ \E v \in Vals, order \in Perms(DOMAIN stores) : SetKeyReq("k1", v, order)
    \/ \E n \in RouteNames : EnablePeriodicSnapshots(n, 1)
    \/ \E n \in RouteNames, createFails \in BOOLEAN : SnapshotTick(n, createFails)
    \/ \E order \in Perms(DOMAIN stores), failing \in SUBSET RouteNames :
          ManualSnapshotReq(order, failing)

SpecSnapshot == Init /\ [][NextSnapshot]_vars

\* ------------------------------------------------------------------------
\* Specification of one KVStore used through its methods, as kvstore_test.go
\* uses it: NewKVStore, Set, Get, Delete, GetAllData, SaveToDisk,
\* LoadFromDisk, RequestPeerBackup answered by a peer, LoadAndMergeFromDisk,
\* and writes by the caller to the map GetAllData returned
\* ------------------------------------------------------------------------

KVNames == {"A"}

\* What the peer holds when a store pulls its backup.
PeerMaps == {EmptyMap, [k \in {"k1"} |-> "v2"], [k \in Keys |-> "v1"]}

KVKeys == Keys \cup {""}

\* The file names LoadFromDisk is called with: the snapshot of the store
\* and its copy of the peer's data.
KVFiles(n) == {SnapName(n), PeerName(n)}

\* What the caller of GetAllData reads in the map it holds.
Held == IF dataCopy.own THEN dataCopy.map ELSE data[dataCopy.of]

\* The caller's map once store n has a new map in s.data: a map shared
\* with the store is the map the store had.
Detach(n) ==
    IF dataCopy.held /\ ~dataCopy.own /\ dataCopy.of = n
    THEN [dataCopy EXCEPT !.own = TRUE, !.map = data[n]]
    ELSE dataCopy

kvFrame == <<brokerVars, proc, PeerIP, ticking, backupOf, takeover, calls, budget>>

\* NewKVStore(name, port): a fresh store of that name.
KVNew(n) ==
    /\ data' = [data EXCEPT ![n] = EmptyMap]
    /\ dataCopy' = Detach(n)
    /\ last' = [op |-> "kv-new", name |-> n]
    /\ UNCHANGED <<kvFrame, accepted, disk>>

KVSet(n, key, value) ==
    LET r == SetHandler(data[n], key, value) IN
    /\ data' = [data EXCEPT ![n] = r.data]
    /\ last' = [op |-> "kv-set", name |-> n, key |-> key, value |-> value,
                err |-> r.status # 200]
    /\ UNCHANGED <<kvFrame, accepted, disk, dataCopy>>

KVGet(n, key) ==
    LET r == Get(data[n], key) IN
    /\ last' = [op |-> "kv-get", name |-> n, key |-> key, value |-> r.value,
                err |-> r.err,
                prev |-> IF last.op \in {"kv-set", "kv-delete"} /\ ~last.err
                         THEN [op |-> last.op, key |-> last.key] ELSE [op |-> ""]]
    /\ UNCHANGED <<kvFrame, accepted, data, disk, dataCopy>>

KVDelete(n, key) ==
    LET r == Delete(data[n], key) IN
    /\ data' = [data EXCEPT ![n] = r.data]
    /\ last' = [op |-> "kv-delete", name |-> n, key |-> key, err |-> r.err,
                again |-> last = [op |-> "kv-delete", name |-> n, key |-> key,
                                   err |-> FALSE, again |-> FALSE]]
    /\ UNCHANGED <<kvFrame, accepted, disk, dataCopy>>

KVSaveToDisk(n) ==
    /\ disk' = SaveToDisk(n, disk)
    /\ last' = [op |-> "kv-save", name |-> n]
    /\ UNCHANGED <<kvFrame, accepted, data, dataCopy>>

\* RequestPeerBackup of store n, answered by a peer that holds peerData.
KVRequestPeerBackup(n, peerData) ==
    /\ disk' = StorePeerBackup(n, EncodeJSON(peerData), disk)
    /\ last' = [op |-> "kv-pull", name |-> n]
    /\ UNCHANGED <<kvFrame, accepted, data, dataCopy>>

\* LoadAndMergeFromDisk of store n.
KVLoadAndMerge(n) ==
    /\ data' = [data EXCEPT ![n] = LoadAndMergeFromDisk(n, @, disk)]
    /\ last' = [op |-> "kv-merge", name |-> n, before |-> data[n]]
    /\ UNCHANGED <<kvFrame, accepted, disk, dataCopy>>

KVLoadFromDisk(n, filename) ==
    LET r == LoadFromDisk(data[n], filename, disk) IN
    /\ data' = [data EXCEPT ![n] = r.data]
    /\ dataCopy' = IF ReadFile(disk, filename).exists THEN Detach(n) ELSE dataCopy
    /\ last' = [op |-> "kv-load", name |-> n, filename |-> filename, err |-> r.err,
                prev |-> last.op]
    /\ UNCHANGED <<kvFrame, accepted, disk>>

\* GetAllData of store n; the caller keeps the map, and taken records what
\* the store held at the call.
KVGetAllData(n) ==
    LET r == GetAllData(data[n]) IN
    /\ dataCopy' = [held |-> TRUE, of |-> n, own |-> r.own, map |-> r.map,
                    taken |-> data[n], written |-> FALSE]
    /\ last' = [op |-> "kv-getall", name |-> n]
    /\ UNCHANGED <<kvFrame, accepted, data, disk>>

\* The caller writes dataCopy[key] = value.
KVWriteCopy(key, value) ==
    /\ dataCopy.held
    /\ IF dataCopy.own
       THEN /\ dataCopy' = [dataCopy EXCEPT !.map = Put(@, key, value),
                                            !.written = TRUE]
            /\ UNCHANGED data
       ELSE /\ data' = [data EXCEPT ![dataCopy.of] = Put(@, key, value)]
            /\ dataCopy' = [dataCopy EXCEPT !.written = TRUE]
    /\ last' = [op |-> "write-copy", key |-> key, value |-> value]
    /\ UNCHANGED <<kvFrame, accepted, disk>>

NextKV ==
    \/ \E n \in KVNames : KVNew(n)
    \/ \E n \in KVNames, k \in KVKeys, v \in Vals : KVSet(n, k, v)
    \/ \E n \in KVNames, k \in KVKeys : KVGet(n, k)
    \/ \E n \in KVNames, k \in KVKeys : KVDelete(n, k)
    \/ \E n \in KVNames : KVSaveToDisk(n)
    \/ \E n \in KVNames : \E f \in KVFiles(n) : KVLoadFromDisk(n, f)
    \/ \E n \in KVNames, m \in PeerMaps : KVRequestPeerBackup(n, m)
    \/ \E n \in KVNames : KVLoadAndMerge(n)
    \/ \E n \in KVNames : KVGetAllData(n)
    \/ \E k \in Keys, v \in Vals : KVWriteCopy(k, v)

SpecKV == Init /\ [][NextKV]_vars

\* ------------------------------------------------------------------------
\* Specification of the peer ring alone: any sequence of AddNode/RemoveNode
\* ------------------------------------------------------------------------

RingAdd(name) ==
    /\ Len(peerlist.nodes) < MaxCells
    /\ peerlist' = AddNode(peerlist, name, Addr(name))
    /\ last' = [op |-> "AddNode", name |-> name, before |-> Traverse(peerlist)]
    /\ UNCHANGED <<stores, loads, nodeVars, takeover, dataCopy, accepted, calls, budget>>

RingRemove(name) ==
    LET r == RemoveNode(peerlist, name) IN
    /\ peerlist' = r.list
    /\ last' = [op |-> "RemoveNode", name |-> name, err |-> r.err,
                before |-> Traverse(peerlist)]
    /\ UNCHANGED <<stores, loads, nodeVars, takeover, dataCopy, accepted, calls, budget>>

NextRing ==
    \/ \E name \in Names : RingAdd(name)
    \/ \E name \in Names : RingRemove(name)

SpecRing == Init /\ [][NextRing]_vars

\* Concurrency: two node processes and requests on the broker that run at
\* the same time.
ConcNames == {"A", "B"}

NextConc ==
    \/ \E n \in ConcNames : StartNode(n)
    \/ \E n \in ConcNames : Listen(n)
    \/ \E n \in ConcNames : Crash(n)
    \/ \E g \in Goroutines, order \in Perms(DOMAIN stores) : GetKeyBegin(g, "k1", order)
    \/ \E g \in Goroutines, yield \in BOOLEAN : GetKeyProbe(g, yield)
    \/ \E g \in Goroutines : GetKeyEvict(g)
    \/ \E g \in Goroutines : GetKeyRemoveNode(g)
    \/ \E g \in Goroutines : GetKeyUnlinkPrev(g)
    \/ \E g \in Goroutines : GetKeyUnlinkNext(g)
    \/ \E g \in Goroutines : GetKeyUnlinkHead(g)
    \/ \E g \in Goroutines : GetKeyPeering(g)
    \/ \E g \in Goroutines, v \in Vals, order \in Perms(DOMAIN stores) :
          SetKeySelect(g, "k1", v, order)
    \/ \E g \in Goroutines : SetKeyForward(g)
    \/ \E g \in Goroutines : SetKeyIncrement(g)

SpecConc == Init /\ [][NextConc]_vars

\* ------------------------------------------------------------------------
\* C1
\* ------------------------------------------------------------------------

\* C1: when a broker set(k,v) succeeded and the next operation is a broker
\* get(k) with every registered store reachable, the get returns v.
C1_SetThenGet ==
    (/\ last.op = "get"
     /\ last.allReachable
     /\ last.prevSet # << >>
     /\ last.prevSet[1] = last.key)
    => (last.found /\ last.value = last.prevSet[2])

\* ------------------------------------------------------------------------
\* C4
\* ------------------------------------------------------------------------

\* Positions of the evictions in the log of a get.
EvictsOf(log) == {i \in 1..Len(log) : log[i].ev = "evict"}

\* The cells of the ring the get started with, in ring order, without
\* those evicted by the events before position i of its log.
RingBefore(i) ==
    LET gone == {last.log[j].to : j \in {e \in EvictsOf(last.log) : e < i}}
    IN SelectSeq(Traverse(last.ring), LAMBDA c : last.ring.nodes[c].Name \notin gone)

\* The cell named name in the ring the get started with.
PosCell(name) ==
    CHOOSE c \in RingIds(last.ring) : last.ring.nodes[c].Name = name

\* Position of the cell named name in a sequence of cells.
PosOf(cells, name) ==
    CHOOSE p \in 1..Len(cells) : last.ring.nodes[cells[p]].Name = name

\* Ring predecessor and successor of the store evicted at position i, at
\* that moment.
PredOf(i) ==
    LET cells == RingBefore(i)
        p     == PosOf(cells, last.log[i].to)
    IN cells[IF p = 1 THEN Len(cells) ELSE p - 1]

SuccOf(i) ==
    LET cells == RingBefore(i)
        p     == PosOf(cells, last.log[i].to)
    IN cells[IF p = Len(cells) THEN 1 ELSE p + 1]

\* The /notify calls ring-notify-all makes on the ring left by the
\* eviction at position i: every node is told its successor's address.
NotifyAllAfter(i) ==
    LET cells == RingBefore(i + 1)
        ip(c) == last.ring.nodes[c].IpAddress
    IN IF Len(cells) < 2 THEN << >>
       ELSE [j \in 1..Len(cells) |->
               <<ip(cells[j]), ip(cells[IF j = Len(cells) THEN 1 ELSE j + 1])>>]

\* The /notify calls the log holds right after position i.
NotifyRun(i) ==
    LET later == {j \in (i + 1)..Len(last.log) : last.log[j].ev # "notify"}
        stop  == IF later = {} THEN Len(last.log)
                 ELSE (CHOOSE j \in later : \A k \in later : j <= k) - 1
    IN [j \in 1..(stop - i) |-> <<last.log[i + j].to, last.log[i + j].arg>>]

\* The steps of every takeover of a get: peer-dead goes to the predecessor
\* of the moment, right before the eviction; ring-notify-all follows the
\* eviction; the evicted store is in none of the three structures at return.
TakeoverSteps ==
    last.op = "get" =>
        \A i \in EvictsOf(last.log) :
            /\ i > 1
            /\ last.log[i - 1].ev = "peer-dead"
            /\ last.log[i - 1].to = last.ring.nodes[PredOf(i)].IpAddress
            /\ NotifyRun(i) = NotifyAllAfter(i)
            /\ last.log[i].to \notin DOMAIN stores
            /\ last.log[i].to \notin DOMAIN loads
            /\ last.log[i].to \notin RingNames(peerlist)

\* Former predecessor and successor of the store evicted at position i
\* point at each other.
Linked(i) ==
    /\ peerlist.nodes[PredOf(i)].Next = SuccOf(i)
    /\ peerlist.nodes[SuccOf(i)].Prev = PredOf(i)

\* C4 as stated: a get that could not reach T sends peer-dead to T's ring
\* predecessor, then removes T from stores, loads and the ring, then runs
\* ring-notify-all; at return T is in none of the three structures and T's
\* former predecessor and successor are linked to each other.
C4_Original ==
    /\ TakeoverSteps
    /\ last.op = "get" =>
          \A i \in EvictsOf(last.log) :
              (PredOf(i) # SuccOf(i) \/ last.ring.nodes[PredOf(i)].Name # last.log[i].to)
              => Linked(i)

\* C4 amended: as stated, with the link between T's former predecessor and
\* successor promised only when both are still ring members at return,
\* that is when neither was evicted later in the same get.
C4_Takeover ==
    /\ TakeoverSteps
    /\ last.op = "get" =>
          \A i \in EvictsOf(last.log) :
              ({PredOf(i), SuccOf(i)} \subseteq RingIds(peerlist)) => Linked(i)

\* A get evicted the middle store of a three-node ring whose other two
\* stores stay registered.
C4_Witness ==
    /\ last.op = "get"
    /\ \E i \in EvictsOf(last.log) :
          /\ Len(RingBefore(i)) = 3
          /\ PredOf(i) # SuccOf(i)
          /\ {PredOf(i), SuccOf(i)} \subseteq RingIds(peerlist)
          /\ last.log[i - 1].ok

\* ------------------------------------------------------------------------
\* C5
\* ------------------------------------------------------------------------

\* C5: once a get has returned, every predecessor P that answered a
\* peer-dead call of its takeovers holds in its data every key->value pair
\* of its peerof<P> backup file.
C5_PeerDeadMerges ==
    last.op = "get" =>
        \A i \in 1..Len(last.log) :
            (last.log[i].ev = "peer-dead" /\ last.log[i].ok) =>
                LET P      == NodeAt(last.log[i].to)
                    file   == ReadFile(disk, PeerName(P))
                    backup == DecodeJSON(file.content)
                IN file.exists =>
                      \A k \in DOMAIN backup :
                          k \in DOMAIN data[P] /\ data[P][k] = backup[k]

\* ------------------------------------------------------------------------
\* C6
\* ------------------------------------------------------------------------

\* C6: in a ring of three nodes, after a get took over the one unreachable
\* node T, whose predecessor P had pulled a backup from T, every later get
\* of a key of that backup returns the value the backup holds, while P
\* serves.
C6_BackupServes ==
    (/\ last.op = "get"
     /\ last.prior.valid
     /\ Len(last.prior.ring) = 3
     /\ last.prior.sole
     /\ proc[last.prior.P] = "serving"
     /\ last.key \in DOMAIN last.prior.backup)
    => (last.found /\ last.value = last.prior.backup[last.key])

\* ------------------------------------------------------------------------
\* C7
\* ------------------------------------------------------------------------

\* C7: when the forward of a broker set to the selected store failed at
\* transport level, that store has been evicted when the set returns, and
\* the set failed only if no registered store is reachable.
C7_SetRetries ==
    (/\ last.op = "set"
     /\ last.store # ""
     /\ ~last.sent)
    => /\ last.store \notin DOMAIN stores
       /\ last.ok \/ ~(\E n \in DOMAIN stores : Reachable(stores[n]))

\* ------------------------------------------------------------------------
\* C3
\* ------------------------------------------------------------------------

\* C3: after any sequence of AddNode and RemoveNode every ring node X has
\* X.Next.Prev = X and X.Prev.Next = X, Head is nil exactly when no node is
\* in the ring (every node added and not removed is met from Head), and a
\* one-node ring has Head.Next = Head.Prev = Head.
C3_RingLinked ==
    LET ring == RingIds(peerlist)
        live == last.op \in {"AddNode", "RemoveNode"} IN
    /\ \A x \in ring :
          /\ peerlist.nodes[x].Next \in ring
          /\ peerlist.nodes[x].Prev \in ring
          /\ peerlist.nodes[peerlist.nodes[x].Next].Prev = x
          /\ peerlist.nodes[peerlist.nodes[x].Prev].Next = x
    /\ (peerlist.Head = Nil) <=> (ring = {})
    /\ Cardinality(ring) = 1 =>
          /\ peerlist.nodes[peerlist.Head].Next = peerlist.Head
          /\ peerlist.nodes[peerlist.Head].Prev = peerlist.Head
    /\ (last.op = "AddNode") =>
          Len(Traverse(peerlist)) = Len(last.before) + 1
    /\ (last.op = "RemoveNode") =>
          Len(Traverse(peerlist)) = Len(last.before) - (IF last.err THEN 0 ELSE 1)

\* Witness of C3: a ring of two nodes left after a removal of the head.
C3_Witness ==
    /\ last.op = "RemoveNode"
    /\ ~last.err
    /\ Len(last.before) = 3
    /\ last.before[1] \notin RingIds(peerlist)
    /\ Cardinality(RingIds(peerlist)) = 2

\* ------------------------------------------------------------------------
\* C9
\* ------------------------------------------------------------------------

\* C9: when a registration succeeded and every store registered before it
\* is reachable, every registered node, the new one included, has received
\* during the registration a /notify carrying the address of its ring
\* successor (a ring of one node has no successor to announce).
C9_AllNotified ==
    (/\ last.op = "register"
     /\ ~last.err
     /\ \A n \in DOMAIN stores \ {last.name} : Reachable(stores[n]))
    => \A c \in RingIds(peerlist) :
          LET cell == peerlist.nodes[c]
              next == peerlist.nodes[cell.Next]
          IN cell.Next # c =>
                \E j \in 1..Len(last.log) :
                    /\ last.log[j].ev = "notify"
                    /\ last.log[j].to = cell.IpAddress
                    /\ last.log[j].arg = next.IpAddress
                    /\ last.log[j].ok

\* ------------------------------------------------------------------------
\* C10
\* ------------------------------------------------------------------------

\* C10: when a get evicted a store T and every remaining registered store
\* is reachable at return, no remaining node keeps T's address as its
\* successor address: the successor address of each is unset or the
\* address of another node that is in the ring.
C10_NoStaleSuccessor ==
    (/\ last.op = "get"
     /\ EvictsOf(last.log) # {}
     /\ \A n \in DOMAIN stores : Reachable(stores[n]))
    => \A n \in DOMAIN stores :
          /\ \A i \in EvictsOf(last.log) :
                PeerIP[n] # last.ring.nodes[PosCell(last.log[i].to)].IpAddress
          /\ \/ PeerIP[n] = ""
             \/ /\ PeerIP[n] # stores[n]
                /\ \E c \in RingIds(peerlist) : peerlist.nodes[c].IpAddress = PeerIP[n]

\* ------------------------------------------------------------------------
\* C2
\* ------------------------------------------------------------------------

\* C2: whenever no broker request is in flight, the names in stores, the
\* keys of loads and the names of the ring nodes are the same set.
C2_SameNames ==
    (\A g \in Goroutines : calls[g] = Idle)
    => /\ DOMAIN stores = DOMAIN loads
       /\ DOMAIN stores = RingNames(peerlist)

\* ------------------------------------------------------------------------
\* C8
\* ------------------------------------------------------------------------

\* Some registered node answers get(k) = v and its load counter is above
\* what it was when the set began.
Stored(k, v, before) ==
    \E n \in DOMAIN stores :
        /\ Reachable(stores[n])
        /\ k \in DOMAIN data[NodeAt(stores[n])]
        /\ data[NodeAt(stores[n])][k] = v
        /\ n \in DOMAIN before
        /\ n \in DOMAIN loads
        /\ loads[n] > before[n]

\* C8 as stated: when a broker set(k,v) returns success and the selected
\* node did not stop meanwhile, a registered node answers get(k) = v and
\* its load counter is strictly greater than before the set, whatever
\* sets, gets and evictions ran at the same time.
C8_Original ==
    (last.op = "set" /\ last.ok /\ "stopped" \notin last.disturbed)
    => Stored(last.key, last.value, last.before)

\* C8 amended: when a broker set(k,v) returns success and, while it ran, the
\* selected node was not evicted, did not stop and received no other set of
\* k, a registered node answers get(k) = v and its load counter is strictly
\* greater than before the set.
C8_SetCounts ==
    (last.op = "set" /\ last.ok /\ last.disturbed = {})
    => Stored(last.key, last.value, last.before)

\* A set returned success, undisturbed, while another request was in flight.
C8_Witness ==
    /\ last.op = "set"
    /\ last.ok
    /\ last.disturbed = {}
    /\ \E g \in Goroutines : calls[g].pc \notin {"idle", "hung"}

\* ------------------------------------------------------------------------
\* C11
\* ------------------------------------------------------------------------

\* C11: a broker delete(k) that located k on a registered reachable node
\* returns true and leaves that node without k, and a broker get(k) that
\* follows it directly returns not-found.
C11_DeleteRemoves ==
    /\ (last.op = "delete" /\ last.storeIP # "")
       => (last.deleted /\ last.key \notin DOMAIN data[NodeAt(last.storeIP)])
    /\ (last.op = "get" /\ last.prevDelete = <<last.key>>) => ~last.found

\* ------------------------------------------------------------------------
\* C12
\* ------------------------------------------------------------------------

C13_LeastLoaded ==
    [][last'.op = "set" =>
          /\ last'.store # "" =>
                /\ last'.store \in DOMAIN stores
                /\ \A m \in DOMAIN loads : loads[last'.store] <= loads[m]
          /\ DOMAIN stores = {} =>
                /\ ~last'.ok
                /\ last'.store = ""
                /\ UNCHANGED <<brokerVars, nodeVars>>]_vars

\* A set went to the store with the smaller counter while another store
\* had a larger one.
C13_Witness ==
    /\ last.op = "set"
    /\ last.ok
    /\ \E m \in DOMAIN last.before : last.before[m] > last.before[last.store]

\* ------------------------------------------------------------------------
\* C14
\* ------------------------------------------------------------------------

\* The sum of the values of f over the set S.
RECURSIVE SumOver(_, _)
SumOver(f, S) ==
    IF S = {} THEN 0
    ELSE LET x == CHOOSE y \in S : TRUE IN f[x] + SumOver(f, S \ {x})

\* No node process has stopped and no store has been evicted so far: every
\* cell ever added to the peer list still has its store.
Undisturbed ==
    /\ budget.crashes = 0
    /\ Len(peerlist.nodes) = Cardinality(DOMAIN stores)

\* C14: once all the broker sets issued at the same time have completed,
\* with no node failure and no eviction, the load counters sum to the number
\* of sets that succeeded and the key they inserted is held by a registered
\* reachable store, where a broker get finds it.
C14_NoLostIncrement ==
    (Undisturbed /\ \A g \in Goroutines : calls[g] = Idle)
    => /\ SumOver(loads, DOMAIN loads) = budget.sets
       /\ budget.sets > 0 =>
             \E n \in DOMAIN stores :
                 /\ Reachable(stores[n])
                 /\ "k1" \in DOMAIN data[NodeAt(stores[n])]

\* Two sets that were in flight together have both completed.
C14_Witness ==
    /\ Undisturbed
    /\ \A g \in Goroutines : calls[g] = Idle
    /\ budget.sets >= 2
    /\ last.op = "set"
    /\ last.ok
    /\ SumOver(last.before, DOMAIN last.before) + 2 <= SumOver(loads, DOMAIN loads)

\* ------------------------------------------------------------------------
\* C15: load balancing of sequential sets
\* ------------------------------------------------------------------------

\* How far apart the counters of lds are.
Spread(lds) ==
    IF DOMAIN lds = {} THEN 0
    ELSE LET hi == CHOOSE x \in DOMAIN lds : \A y \in DOMAIN lds : lds[y] <= lds[x]
             lo == CHOOSE x \in DOMAIN lds : \A y \in DOMAIN lds : lds[x] <= lds[y]
         IN lds[hi] - lds[lo]

\* C15 as stated: under sequential successful sets with no delete and no
\* eviction, the load counters of any two registered stores never differ by
\* more than 1.
C15_Original == Spread(loads) <= 1

\* C15: a successful set adds 1 to the counter of one store, which holds the
\* key afterwards; it keeps counters that are within 1 of each other within
\* 1 of each other, and the second set on two fresh stores lands on the
\* store the first one did not take and leaves both counters at 1.
C15_Balanced ==
    [][(last'.op = "set" /\ last'.ok) =>
          /\ loads' = [loads EXCEPT ![last'.store] = @ + 1]
          /\ last'.key \in DOMAIN data'[NodeAt(stores[last'.store])]
          /\ Spread(loads) <= 1 => Spread(loads') <= 1
          /\ (DOMAIN loads = RouteNames /\ SumOver(loads, DOMAIN loads) = 1) =>
                /\ loads[last'.store] = 0
                /\ loads' = [n \in RouteNames |-> 1]]_vars

\* The second of two sets of distinct keys on two fresh stores returned:
\* each store holds one of the keys and counts 1.
C15_Witness ==
    /\ last.op = "set" /\ last.ok
    /\ DOMAIN stores = RouteNames
    /\ SumOver(last.before, DOMAIN last.before) = 1
    /\ loads = [n \in RouteNames |-> 1]
    /\ \E m, n \in RouteNames :
          /\ m # n
          /\ DOMAIN data[NodeAt(stores[m])] = {"k1"}
          /\ DOMAIN data[NodeAt(stores[n])] = {"k2"}

\* ------------------------------------------------------------------------
\* C16: mutations of stores, loads and the ring under the write lock
\* ------------------------------------------------------------------------

\* Goroutine g is inside an eviction: it has deleted the store from stores
\* and loads and has not yet finished the removal from the ring and the
\* notification of the peers.
Mutating(g) ==
    calls[g].pc \in {"remove", "unlinkPrev", "unlinkNext", "unlinkHead", "peering"}

\* C16: while a request is changing stores, loads or the ring, no other
\* request is inside the broker's critical section: at most one structural
\* mutation is in progress and nobody sees the three partially updated.
C16_WriteLocked ==
    \A g \in Goroutines :
        Mutating(g) => \A h \in Goroutines \ {g} : h \notin Readers

\* ------------------------------------------------------------------------
\* C17: registrations the broker refuses
\* ------------------------------------------------------------------------

\* C17: a registration of a name that is already in stores, or with an
\* empty address, fails; a registration that fails leaves stores, loads and
\* the ring as they were and sends no notification.
C17_RegisterFails ==
    [][last'.op = "register" =>
          /\ (last'.name \in DOMAIN stores \/ last'.ip = "") => last'.err
          /\ last'.err =>
                /\ UNCHANGED <<stores, loads, peerlist, PeerIP>>
                /\ last'.log = << >>]_vars

\* A registration of a known name failed while another registered node was
\* there to be notified.
C17_Witness ==
    /\ last.op = "register" /\ last.err
    /\ last.ip # ""
    /\ last.name \in DOMAIN stores
    /\ \E m \in DOMAIN stores \ {last.name} : Reachable(stores[m])

\* ------------------------------------------------------------------------
\* C18: set of the empty key
\* ------------------------------------------------------------------------

\* C18: a set of the empty key reports failure, changes the data of no node
\* and increments no load counter; no node ever holds the empty key.
C18_EmptyKeyRejected ==
    [][last'.op = "set" /\ last'.key = "" =>
          /\ ~last'.ok
          /\ UNCHANGED <<data, loads>>
          /\ \A n \in Names : "" \notin DOMAIN data'[n]]_vars

\* A set of the empty key reached a node, which refused it.
C18_Witness ==
    /\ last.op = "set" /\ last.key = ""
    /\ last.sent /\ ~last.ok
    /\ last.store \in DOMAIN stores
    /\ loads = last.before

\* ------------------------------------------------------------------------
\* C19: get of a key no registered node holds
\* ------------------------------------------------------------------------

\* C19: a get of a key that no registered node holds, the case of no
\* registered store included, reports not found; when every registered store
\* is reachable it changes nothing at the broker and nothing at the nodes.
C19_NotFound ==
    [][(/\ last'.op = "get"
        /\ \A n \in DOMAIN stores : last'.key \notin DOMAIN data[NodeAt(stores[n])])
       => /\ ~last'.found
          /\ last'.allReachable => UNCHANGED <<brokerVars, nodeVars>>]_vars

\* A get of k1 probed two reachable stores and found nothing.
C19_Witness ==
    /\ last.op = "get" /\ last.key = "k1"
    /\ ~last.found
    /\ last.allReachable
    /\ DOMAIN stores = RouteNames
    /\ last.log = << >>

\* ------------------------------------------------------------------------
\* C20: set and get on one node
\* ------------------------------------------------------------------------

\* C20: a set that a node accepts makes its store hold the value for the
\* key, in place of an earlier value, and leaves the other keys alone; the
\* store of a node changes only by a set it accepts or by the merge of a
\* peer-dead call; a get that finds the key returns the value the store of
\* the answering node holds; a get on a single registered node that does not
\* hold the key fails.
C20_ReadYourWrites ==
    [][\A n \in Names :
          /\ (last'.op = "set" /\ last'.ok /\ stores[last'.store] = Addr(n))
             => /\ last'.key # ""
                /\ data'[n] = Put(data[n], last'.key, last'.value)
          /\ data'[n] # data[n]
             => \/ last'.op = "set" /\ last'.ok /\ stores[last'.store] = Addr(n)
                \/ last'.op = "peer-dead" /\ last'.name = n /\ last'.status = 200
          /\ (last'.op = "get" /\ last'.found /\ last'.from = n)
             => /\ n \in DOMAIN stores
                /\ last'.key \in DOMAIN data'[NodeAt(stores[n])]
                /\ last'.value = data'[NodeAt(stores[n])][last'.key]
          /\ (/\ last'.op = "get"
              /\ DOMAIN stores = {n}
              /\ Reachable(stores[n])
              /\ last'.key \notin DOMAIN data[NodeAt(stores[n])])
             => ~last'.found]_vars

\* A get on a single node returned v2 for k1 right after the second set of
\* k1 on that node.
C20_Witness ==
    /\ last.op = "get" /\ last.found
    /\ last.key = "k1" /\ last.value = "v2"
    /\ last.prevSet = <<"k1", "v2">>
    /\ DOMAIN stores = {last.from}
    /\ loads[last.from] = 2
    /\ DOMAIN data[NodeAt(stores[last.from])] = {"k1"}

\* ------------------------------------------------------------------------
\* C21: delete on a node
\* ------------------------------------------------------------------------

\* C21: Delete of a key the store holds succeeds, removes that key and
\* leaves every other key with its value, and a Get of the key right after
\* it fails; Delete of a key the store does not hold fails and leaves the
\* map as it was, so the second of two deletes of a key fails.
C21_Delete ==
    [][/\ last'.op = "kv-delete" =>
            LET d == data[last'.name]
                e == data'[last'.name]
                k == last'.key
            IN /\ k \in DOMAIN d =>
                     /\ ~last'.err
                     /\ DOMAIN e = DOMAIN d \ {k}
                     /\ \A j \in DOMAIN e : e[j] = d[j]
               /\ k \notin DOMAIN d => (last'.err /\ e = d)
               /\ last'.again => last'.err
       /\ (last'.op = "kv-get" /\ last'.prev = [op |-> "kv-delete", key |-> last'.key])
            => last'.err]_vars

\* The second delete of a key failed while the store holds another key.
C21_Witness ==
    /\ last.op = "kv-delete"
    /\ last.again /\ last.err
    /\ data[last.name] # EmptyMap

\* ------------------------------------------------------------------------
\* C22: SaveToDisk and LoadFromDisk
\* ------------------------------------------------------------------------

\* The members of a JSON object as a set of pairs.
Members(text) == {text[i] : i \in 1..Len(text)}

\* The entries of a map as a set of pairs.
Entries(m) == {<<k, m[k]>> : k \in DOMAIN m}

\* C22: SaveToDisk writes the entries of the store to its snapshot file;
\* LoadFromDisk of a file that exists succeeds and leaves the store with
\* the members of the file as its entries and no other key; a load right
\* after the save of the same store changes nothing.
C22_SaveLoad ==
    [][/\ last'.op = "kv-save" =>
            /\ disk'[SnapName(last'.name)].exists
            /\ Members(disk'[SnapName(last'.name)].content) = Entries(data[last'.name])
       /\ (last'.op = "kv-load" /\ disk[last'.filename].exists) =>
            /\ ~last'.err
            /\ Entries(data'[last'.name]) = Members(disk[last'.filename].content)
            /\ (last'.prev = "kv-save" /\ last'.filename = SnapName(last'.name))
                  => data'[last'.name] = data[last'.name]]_vars

\* A fresh store of the same name loaded a snapshot that holds two keys.
C22_Witness ==
    /\ last.op = "kv-load" /\ last.prev = "kv-new"
    /\ DOMAIN data[last.name] = Keys
    /\ Entries(data[last.name]) = Members(disk[SnapName(last.name)].content)

\* ------------------------------------------------------------------------
\* C23: LoadFromDisk of a file that does not exist
\* ------------------------------------------------------------------------

\* C23: LoadFromDisk of a path at which no file exists returns no error and
\* leaves the store empty.
C23_MissingFile ==
    [][(last'.op = "kv-load" /\ ~disk[last'.filename].exists)
       => /\ ~last'.err
          /\ data'[last'.name] = EmptyMap]_vars

\* ------------------------------------------------------------------------
\* C24: the map GetAllData returns
\* ------------------------------------------------------------------------

\* C24: the map GetAllData returns holds what the store holds at the call;
\* as long as its holder does not write to it, it keeps those entries
\* whatever Set, Delete, LoadFromDisk or LoadAndMergeFromDisk do to the
\* store afterwards; a write of the holder to it leaves the store as it is.
C24_Independent ==
    [][/\ last'.op = "kv-getall" => Held' = data[last'.name]
       /\ (dataCopy'.held /\ ~dataCopy'.written) => Held' = dataCopy'.taken
       /\ last'.op = "write-copy" => UNCHANGED data]_vars

\* A merge changed the store after GetAllData; the map returned still
\* holds what the store held at the call.
C24_Witness ==
    /\ dataCopy.held /\ ~dataCopy.written
    /\ last.op = "kv-merge"
    /\ data[dataCopy.of] # dataCopy.taken
    /\ dataCopy.taken # EmptyMap
    /\ Held = dataCopy.taken

\* ------------------------------------------------------------------------
\* C27: LoadAndMergeFromDisk
\* ------------------------------------------------------------------------

\* C27: after LoadAndMergeFromDisk the store holds the value of the backup
\* file for every key of the file, the value it held for every other key,
\* and no further key; without a backup file the store is as it was.
C27_Merge ==
    [][last'.op = "kv-merge" =>
          LET n    == last'.name
              file == disk[PeerName(n)]
              keys == {p[1] : p \in Members(file.content)}
          IN IF file.exists
             THEN /\ \A p \in Members(file.content) :
                        p[1] \in DOMAIN data'[n] /\ data'[n][p[1]] = p[2]
                  /\ \A k \in DOMAIN data[n] \ keys :
                        k \in DOMAIN data'[n] /\ data'[n][k] = data[n][k]
                  /\ DOMAIN data'[n] = DOMAIN data[n] \cup keys
             ELSE data'[n] = data[n]]_vars

\* A merge took v2 for k1 from the backup, over the v1 the store held, and
\* left k2, which the backup does not hold.
C27_Witness ==
    /\ last.op = "kv-merge"
    /\ disk[PeerName(last.name)].exists
    /\ Members(disk[PeerName(last.name)].content) = {<<"k1", "v2">>}
    /\ DOMAIN last.before = Keys
    /\ last.before["k1"] = "v1"
    /\ data[last.name] = [last.before EXCEPT !["k1"] = "v2"]

\* ------------------------------------------------------------------------
\* C25: what NotifyPeersOfEachOther sends
\* ------------------------------------------------------------------------

\* The notifications the last operation sent on the ring as it is now:
\* those after its last eviction.
SentOnRing ==
    IF "log" \notin DOMAIN last THEN {}
    ELSE LET from == IF EvictsOf(last.log) = {} THEN 0
                     ELSE CHOOSE e \in EvictsOf(last.log) :
                              \A f \in EvictsOf(last.log) : f <= e
         IN {i \in (from + 1)..Len(last.log) : last.log[i].ev = "notify"}

\* C25: every notification goes to the address of a ring node and carries
\* the address of the successor of that node; the two addresses differ and
\* neither is empty; on a ring of one node nothing is sent.
C25_NotifySuccessor ==
    /\ \A i \in SentOnRing :
          LET e == last.log[i] IN
          /\ e.to # "" /\ e.arg # "" /\ e.to # e.arg
          /\ \E c \in RingIds(peerlist) :
                /\ peerlist.nodes[c].IpAddress = e.to
                /\ peerlist.nodes[peerlist.nodes[c].Next].IpAddress = e.arg
    /\ Cardinality(RingIds(peerlist)) <= 1 => SentOnRing = {}

\* An eviction left a ring of two nodes and each was told the other; before
\* it the ring had three nodes.
C25_Witness ==
    /\ last.op = "get"
    /\ Cardinality(EvictsOf(last.log)) = 1
    /\ Cardinality(RingIds(peerlist)) = 2
    /\ Cardinality(SentOnRing) = 2
    /\ \A i \in SentOnRing : last.log[i].ok

\* ------------------------------------------------------------------------
\* C26: manual snapshot of all stores
\* ------------------------------------------------------------------------

\* C26: a manual snapshot sends one save request to every registered store,
\* whatever the outcome at the stores before it; every store that answers
\* 200 has written its data to its snapshot file; stores, loads and the
\* ring stay as they are, so no store is evicted.
C26_ManualSnapshot ==
    [][last'.op = "manual-snapshot" =>
          LET log == last'.log IN
          /\ Len(log) = Cardinality(DOMAIN stores)
          /\ {log[i].to : i \in 1..Len(log)} = DOMAIN stores
          /\ \A i \in 1..Len(log) :
                /\ log[i].arg = 0 <=> ~Reachable(stores[log[i].to])
                /\ log[i].arg = 200 =>
                      Members(disk'[SnapName(NodeAt(stores[log[i].to]))].content)
                         = Entries(data[NodeAt(stores[log[i].to])])
          /\ UNCHANGED <<stores, loads, peerlist>>]_vars

\* A manual snapshot failed at the first store it visited, for a save
\* error or because the store was unreachable, and succeeded at the second,
\* which holds a key.
C26_Witness ==
    /\ last.op = "manual-snapshot"
    /\ Len(last.log) = 2
    /\ last.log[1].arg # 200
    /\ last.log[2].arg = 200
    /\ disk[SnapName(NodeAt(stores[last.log[2].to]))].content # << >>

\* ------------------------------------------------------------------------
\* C28: the periodic snapshot task
\* ------------------------------------------------------------------------

\* C28: a tick of a node pulls the peer's backup exactly when the node has
\* a peer address, and before it saves; a save that succeeds writes the
\* node's data; whatever the outcome of the pull and of the save, the task
\* keeps running: only the end of the process stops it.
C28_TickSteps ==
    [][/\ last'.op = "tick" =>
            LET n == last'.name IN
            /\ last'.log = IF PeerIP[n] # "" THEN <<"pull", "save">> ELSE <<"save">>
            /\ last'.pulled => PeerIP[n] # ""
            /\ last'.saved =>
                  Members(disk'[SnapName(n)].content) = Entries(data[n])
            /\ ticking'[n] /\ proc'[n] = "serving"
       /\ \A n \in Names :
            (ticking[n] /\ ~ticking'[n]) => (last'.op = "crash" /\ last'.name = n)]_vars

\* A node ticked again and saved after a tick in which both its pull and
\* its save had failed.
C28_Witness ==
    /\ last.op = "tick"
    /\ last.earlier = << <<"pull", "save">>, FALSE, FALSE >>
    /\ last.saved
    /\ ticking[last.name]

\* ------------------------------------------------------------------------
\* C29: the peer backup file
\* ------------------------------------------------------------------------

\* C29: the file peerof<n> is written by a successful pull of n and by
\* nothing else: a tick of n that pulled leaves in it exactly the data the
\* node at n's peer address held at that instant, and every other step,
\* a tick whose pull failed included, leaves the file as it was. The file
\* that exists therefore holds the data of the most recent successful pull.
C29_PeerBackupFile ==
    [][\A n \in RouteNames :
          LET pulledNow == last'.op = "tick" /\ last'.name = n /\ last'.pulled IN
          /\ pulledNow =>
                /\ disk'[PeerName(n)].exists
                /\ Members(disk'[PeerName(n)].content) =
                      Entries(data[NodeAt(PeerIP[n])])
                /\ Len(disk'[PeerName(n)].content) =
                      Cardinality(DOMAIN data[NodeAt(PeerIP[n])])
          /\ ~pulledNow => disk'[PeerName(n)] = disk[PeerName(n)]]_vars

\* A node whose earlier tick pulled a non-empty backup from its peer ticked
\* again with the peer unreachable, and the file still holds that backup.
C29_Witness ==
    /\ last.op = "tick"
    /\ ~last.pulled
    /\ last.log = <<"pull", "save">>
    /\ backupOf[last.name] = NodeAt(PeerIP[last.name])
    /\ disk[PeerName(last.name)].exists
    /\ disk[PeerName(last.name)].content # << >>

\* ------------------------------------------------------------------------
\* C30: a get that meets an unreachable node
\* ------------------------------------------------------------------------

NotifiedTo(log, n) ==
    SelectSeq(log, LAMBDA e : e.ev = "notify" /\ e.to = Addr(n) /\ e.ok)

\* C31: a peer-dead request leaves the peer address of the node as it was,
\* whether the request is refused or merges the backup; the peer address
\* of a running node changes only in a step that delivered a /notify to
\* it, and then to the address of the last /notify delivered.
C31_PeerDeadKeepsPeer ==
    [][/\ last'.op = "peer-dead" => PeerIP' = PeerIP
       /\ \A n \in Names :
            (proc'[n] # "off" /\ PeerIP'[n] # PeerIP[n]) =>
               /\ last'.op \in {"register", "get"}
               /\ NotifiedTo(last'.log, n) # << >>
               /\ PeerIP'[n] = NotifiedTo(last'.log, n)[Len(NotifiedTo(last'.log, n))].arg
       /\ \A n \in Names :
            (last'.op = "get" /\ NotifiedTo(last'.log, n) = << >>) =>
               PeerIP'[n] = PeerIP[n]]_vars

\* A node that has a peer address handled a peer-dead request, merged its
\* backup and still has the peer address.
C31_Witness ==
    /\ last.op = "peer-dead"
    /\ last.status = 200
    /\ PeerIP[last.name] # ""
    /\ data[last.name] # EmptyMap

\* ------------------------------------------------------------------------
\* C32: RemoveNode
\* ------------------------------------------------------------------------

\* The sequence s without its element at position i.
DropAt(s, i) == SubSeq(s, 1, i - 1) \o SubSeq(s, i + 1, Len(s))

\* The positions of the cells named name in the walk before.
NamedIn(ll, before, name) == {i \in 1..Len(before) : ll.nodes[before[i]].Name = name}

\* C32: RemoveNode of a name the ring holds removes one cell of that name,
\* the first met from Head, and the walk from Head meets the other cells
\* in the order they had; Head moves to the next cell when the cell
\* removed was Head of a ring of several cells and is cleared when it was
\* the only cell; Next and Prev of the cells left agree.  RemoveNode of a
\* name the ring does not hold, or on an empty ring, returns an error and
\* changes nothing.
C32_RemoveNode ==
    [][last'.op = "RemoveNode" =>
         LET before == last'.before
             at     == NamedIn(peerlist, before, last'.name)
             after  == Traverse(peerlist')
         IN /\ last'.err <=> at = {}
            /\ last'.err => peerlist' = peerlist
            /\ ~last'.err =>
                  LET i == CHOOSE j \in at : \A k \in at : j <= k IN
                  /\ after = DropAt(before, i)
                  /\ Len(before) = 1 => peerlist'.Head = Nil
                  /\ (Len(before) > 1 /\ i = 1) => peerlist'.Head = before[2]
                  /\ (Len(before) > 1 /\ i > 1) => peerlist'.Head = peerlist.Head
                  /\ \A j \in 1..Len(after) :
                        LET nxt == after[(j % Len(after)) + 1] IN
                        /\ peerlist'.nodes[after[j]].Next = nxt
                        /\ peerlist'.nodes[nxt].Prev = after[j]
                  /\ \A j \in 1..Len(after) :
                        /\ peerlist'.nodes[after[j]].Name = peerlist.nodes[after[j]].Name
                        /\ peerlist'.nodes[after[j]].IpAddress =
                              peerlist.nodes[after[j]].IpAddress]_vars

\* RemoveNode took the head cell out of a ring of three cells.
C32_Witness ==
    /\ last.op = "RemoveNode"
    /\ ~last.err
    /\ Len(last.before) = 3
    /\ peerlist.nodes[last.before[1]].Name = last.name
    /\ peerlist.Head = last.before[2]

\* ------------------------------------------------------------------------
\* C33: the load counters count sets and gets
\* ------------------------------------------------------------------------

\* C33: the counter of a store is 0 when the store is registered and goes
\* up by one with every operation the broker routes to the store and the
\* store accepts: a set the store answered with 200 and a get the store
\* served.
C33_LoadCountsRouted ==
    [][/\ \A n \in DOMAIN stores' \ DOMAIN stores : loads'[n] = 0
       /\ (last'.op = "set" /\ last'.ok /\ last'.store \in DOMAIN loads) =>
             loads'[last'.store] = loads[last'.store] + 1
       /\ (last'.op = "get" /\ last'.found) =>
             loads'[last'.from] = loads[last'.from] + 1]_vars

\* ------------------------------------------------------------------------
\* C34: one holder per key
\* ------------------------------------------------------------------------

\* The registered stores whose node holds key.
Holders(key) == {n \in DOMAIN stores : key \in DOMAIN data[NodeAt(stores[n])]}

\* C34: in every state each key is held by at most one registered node.
C34_OneHolder ==
    \A key \in Keys : Cardinality(Holders(key)) <= 1

\* ------------------------------------------------------------------------
\* C35: the recipient of peer-dead
\* ------------------------------------------------------------------------

\* C35: the peer-dead call of a takeover is never sent to the address of
\* the store the takeover evicts: its recipient is another store of the
\* ring, and a takeover of the only store of the ring sends none.
C35_PeerDeadNotToSelf ==
    last.op = "get" =>
        \A i \in EvictsOf(last.log) :
            \A j \in 1..(i - 1) :
                (j = i - 1 /\ last.log[j].ev = "peer-dead") =>
                    /\ last.log[j].to # Addr(last.log[i].to)
                    /\ last.log[j].to \in {last.ring.nodes[c].IpAddress :
                                              c \in RingIds(last.ring)}

\* ------------------------------------------------------------------------
\* C36: the backup a peer-dead request merges
\* ------------------------------------------------------------------------

\* C36: when a node P whose successor T has failed handles a peer-dead
\* request and merges its backup file, the file is the one P pulled from
\* T, never one pulled from another node.
C36_MergesBackupOfFailed ==
    (/\ last.op = "peer-dead"
     /\ last.status = 200
     /\ disk[PeerName(last.name)].exists
     /\ PeerIP[last.name] # ""
     /\ ~Reachable(PeerIP[last.name]))
    => backupOf[last.name] = NodeAt(PeerIP[last.name])

\* ------------------------------------------------------------------------
\* C37: no lock is waited for forever
\* ------------------------------------------------------------------------

\* The steps of the request goroutine g runs, once the request has begun.
GoroutineStep(g) ==
    \/ \E yield \in BOOLEAN : GetKeyProbe(g, yield)
    \/ GetKeyEvict(g)
    \/ GetKeyRemoveNode(g)
    \/ GetKeyUnlinkPrev(g)
    \/ GetKeyUnlinkNext(g)
    \/ GetKeyUnlinkHead(g)
    \/ GetKeyPeering(g)
    \/ SetKeyForward(g)
    \/ SetKeyIncrement(g)

\* The concurrent broker requests with the scheduling of Go: a goroutine
\* that can run does run; every outbound call returns or fails.
SpecConcLive == SpecConc /\ \A g \in Goroutines : WF_vars(GoroutineStep(g))

C38_NoCounterRecreated ==
    [][/\ last'.op = "set" =>
            /\ DOMAIN stores' = DOMAIN stores
            /\ DOMAIN loads' = DOMAIN loads
            /\ \A n \in DOMAIN loads :
                  loads'[n] = IF last'.ok /\ n = last'.store THEN loads[n] + 1
                              ELSE loads[n]
       /\ \A n \in Names :
            /\ DOMAIN IncrementLoad(loads, n) = DOMAIN loads
            /\ DOMAIN ResetLoad(loads, n) = DOMAIN loads
            /\ \A m \in DOMAIN loads \ {n} :
                  /\ IncrementLoad(loads, n)[m] = loads[m]
                  /\ ResetLoad(loads, n)[m] = loads[m]
            /\ n \in DOMAIN loads => ResetLoad(loads, n)[n] = 0]_vars

\* A set returned success after a concurrent get had evicted its store,
\* and the store has neither an entry in stores nor a counter.
C38_Witness ==
    /\ last.op = "set"
    /\ last.ok
    /\ "evicted" \in last.disturbed
    /\ last.store \notin DOMAIN stores
    /\ last.store \notin DOMAIN loads

\* ------------------------------------------------------------------------
\* C39: every value a get returns was set
\* ------------------------------------------------------------------------

\* The pairs held in the memory of the nodes and in the snapshot files.
Stored39 ==
    UNION {Entries(data[n]) : n \in Names}
    \cup UNION {Members(disk[f].content) : f \in DOMAIN disk}

\* C39: a get that succeeds returns for its key a value that a node
\* accepted for that key in an earlier set; pulls, saves, merges and loads
\* put no pair in a store or in a file that no set brought.
C39_OnlySetValues ==
    /\ (last.op = "get" /\ last.found) => <<last.key, last.value>> \in accepted
    /\ Stored39 \subseteq accepted

\* A get returned a value from a node that got it by a merge or a load
\* after the node that accepted the set had stopped.
C39_Witness ==
    /\ last.op = "get"
    /\ last.found
    /\ budget.crashes > 0
    /\ proc[last.from] = "serving"
    /\ \E n \in RouteNames \ {last.from} :
          /\ proc[n] = "off"
          /\ backupOf[last.from] = n
    /\ loads[last.from] = 0

====
